---- MODULE Spec2Model ----
(***************************************************************************)
(* Ball_Game: the match loop of run_game and the per-frame pipeline of     *)
(* esper processors (systems.py).                                          *)
(*                                                                         *)
(* Units.  Times are integer milliseconds (the program holds seconds as    *)
(* floats: dt = clock.tick(FPS)/1000.0, pygame.time.get_ticks()/1000.0).   *)
(* Ratios (damage_reduction, skill effect_value) are integer hundredths.  *)
(* Mana is in thousandths of a mana point.                                 *)
(*                                                                         *)
(* Geometry.  Position, Velocity and Rotation are real-valued and are not  *)
(* part of the state of specification Spec; the result of each geometric   *)
(* test of the Collision engine (narrow phase, shield interception, shield *)
(* facing) is an input of the step that evaluates it.  Specification       *)
(* GeomSpec tracks the geometry of the two balls in pos, vel and phys, in   *)
(* pixels, pixels per second, tenths of a mass unit and thousandths of     *)
(* restitution; there the tests on two balls are computed.                 *)
(***************************************************************************)
EXTENDS Integers, Sequences, FiniteSets, TLC

VARIABLES
    pc,             \* 0: run_game handles events; k>0: esper.process runs processors[k]
    pairIdx,        \* BallCollisionSystem: the indices <<i, j>> its two loops are at
    frame,          \* number of frames started
    match_running,  \* run_game: match_running
    quit_game,      \* run_game: quit_game
    winner,         \* run_game: winner (NoWinner, 0, 1, 2)
    current_time,   \* run_game: current_time, the sum of the dt of the match
    ticks,          \* pygame.time.get_ticks(), the clock of the damage cooldowns
    dt,             \* the dt of the frame in progress
    entities,       \* esper: ids of the entities of the world (dead ones until cleared)
    dead,           \* esper: ids given to delete_entity, removed by the next process()
    hp,             \* Health.current_hp, per entity with Health
    prot,           \* SpawnProtection.time, per entity carrying the component
    cdLast,         \* DamageCooldown.last_damage_time, per entity with the component
    mana,           \* Mana.current_mana, per entity with Mana
    lastCast,       \* SkillSlot.last_cast_time, per entity and slot (Never = -inf)
    effect,         \* the SkillEffect component, per entity carrying one
    popups,         \* the DamagePopup entities, in creation order
    ran,            \* history: the processors run so far in the frame in progress
    last,           \* history: what the last step did
    hitAt,          \* history: per entity, ticks of its last hp loss in the Collision engine
    pos,            \* Position (x, y, radius) of the bodies whose geometry is tracked
    vel,            \* Velocity (vx, vy) of the bodies whose geometry is tracked
    phys,           \* Physics (mass, restitution) of the bodies whose geometry is tracked
    sel,            \* select_skills: its local variables and how it ended
    rot,            \* Rotation.angle (millidegrees) of the entities whose angle is tracked
    orb,            \* OrbitalItem.angle (millidegrees) of the items whose angle is tracked
    desired,        \* DesiredSpeed.speed (px/s) of the balls whose target speed is tracked
    spawn           \* select_classes_and_spawns: its spawn loop's variables and how it ended

vars == << pc, pairIdx, frame, match_running, quit_game, winner, current_time, ticks, dt,
           entities, dead, hp, prot, cdLast, mana, lastCast, effect, popups,
           ran, last, hitAt, pos, vel, phys, sel, rot, orb, desired, spawn >>

(***************************************************************************)
(* Bounds of the model.                                                    *)
(***************************************************************************)
MaxFrames == 3
DtSet == {50, 400}          \* values of clock.tick(FPS), ms
DtSkill == {0, 500}         \* values of clock.tick(FPS) in specification SkillSpec, ms
CastFrames == {0}           \* key events are delivered while frame is in this set
StartTicks == {1000}        \* get_ticks() when the match loop starts (menus came first)

(***************************************************************************)
(* Program constants.                                                      *)
(***************************************************************************)
ProtectionTime == 400       \* SpawnProtection(protection_time=0.4)
CooldownTime == 100         \* DamageCooldown(cooldown_time=0.1)
PopupDuration == 900        \* DamagePopup(..., duration=0.9)
MaxManaMilli == 10000       \* Mana(max_mana=10.0)
RegenMilliPerSec == 500     \* Mana(regen_rate=0.5)
Never == -1                 \* SkillSlot.last_cast_time = -float('inf')
NoWinner == -1              \* winner = None

\* the arena of run_game: ArenaBoundary(ARENA_X, ARENA_Y, ARENA_SIZE, ARENA_SIZE)
ARENA_SIZE == 375

ARENA_X == 292

ARENA_Y == 82

(***************************************************************************)
(* The world built by run_game: entity ids in creation order.              *)
(***************************************************************************)
arena == 1
id1 == 2
id2 == 4

\* create_ball: the components of the two balls (class data as passed by run_game)
BallData ==
    [ e \in {id1, id2} |->
        IF e = id1 THEN [ player_id |-> 1, max_hp |-> 8,  body_damage |-> 5 ]
                   ELSE [ player_id |-> 2, max_hp |-> 14, body_damage |-> 3 ] ]

\* create_orbital_item: Item and OrbitalItem of the orbital items
ItemData ==
    [ e \in {3, 5, 6} |->
        CASE e = 3 -> [ name |-> "Sword",  parent_entity |-> id1, damage |-> 5,
                        damage_reduction |-> 0 ]
          [] e = 5 -> [ name |-> "Shield", parent_entity |-> id2, damage |-> 0,
                        damage_reduction |-> 60 ]
          [] e = 6 -> [ name |-> "Guard",  parent_entity |-> id2, damage |-> 4,
                        damage_reduction |-> 40 ] ]

\* SKILLS_PRESETS (ms, hundredths, thousandths of mana)
SKILLS_PRESETS ==
    [ Shield  |-> [ mana_cost |-> 3000, cooldown |-> 1000, effect_type |-> "damage_reduction",
                    effect_value |-> 50,  effect_duration |-> 2000 ],
      Berserk |-> [ mana_cost |-> 4000, cooldown |-> 1000, effect_type |-> "damage_boost",
                    effect_value |-> 150, effect_duration |-> 2000 ],
      Heal    |-> [ mana_cost |-> 5000, cooldown |-> 5000, effect_type |-> "heal",
                    effect_value |-> 1000, effect_duration |-> 0 ],
      Giant   |-> [ mana_cost |-> 4000, cooldown |-> 3000, effect_type |-> "radius_boost",
                    effect_value |-> 150, effect_duration |-> 3000 ] ]

\* skills_p1, skills_p2: the names that select_skills returned for the ball's player
skills(e) == IF e = id1 THEN sel.selected_p1 ELSE sel.selected_p2

\* SkillSlots(skills): the four slots of each ball, indexed 0..3; slot i holds
\* SKILLS_PRESETS[name] of the i-th selected name and its own last_cast_time
SkillSlots ==
    [ e \in {id1, id2} |-> [ i \in 0..3 |-> SKILLS_PRESETS[skills(e)[i]] ] ]

\* SkillSlots.get_slot(index): the slot, None when the index is out of range
NoSlot == [ none |-> TRUE ]

get_slot(e, index) ==
    IF 0 <= index /\ index < 4 THEN SkillSlots[e][index] ELSE NoSlot

\* the key events the model delivers: <<player's ball, slot index>>
KeyEvents == { <<id1, 1>>, <<id2, 0>> }

\* the key events of specification SkillSpec
SkillKeyEvents == KeyEvents \cup { <<id2, 2>> }

(***************************************************************************)
(* esper: component queries.  A dead entity keeps its components until     *)
(* clear_dead_entities() runs at the start of the next process().          *)
(***************************************************************************)
Balls == {id1, id2}
Items == DOMAIN ItemData

entity_exists(e) == e \in entities /\ e \notin dead

HasHealth(e) == e \in entities /\ e \in Balls
HasDamage(e) == e \in entities /\ e \in Balls
HasItem(e) == e \in entities /\ e \in Items
\* mutant: only the items that carry damage get the OrbitalItem component
HasOrbitalItem_WeaponsOnly(e) ==
    e \in entities /\ e \in Items /\ ItemData[e].damage > 0

HasOrbitalItem(e) == e \in entities /\ e \in Items
HasHitboxRect(e) == e \in entities /\ e \in Items
HasPosition(e) == e \in entities /\ e \in Balls \cup Items
HasPhysics(e) == e \in entities /\ e \in Balls \cup Items
\* mutant: the component counts only while its time exceeds the initial time
HasSpawnProtection_WrongTime(e) == e \in DOMAIN prot /\ prot[e] > ProtectionTime

HasSpawnProtection(e) == e \in DOMAIN prot
HasDamageCooldown(e) == e \in entities /\ e \in Balls
HasSkillEffect(e) == e \in DOMAIN effect

Min(a, b) == IF a <= b THEN a ELSE b
Max(a, b) == IF a >= b THEN a ELSE b

\* Python's round() of the non-negative ratio n/d: to nearest, ties to even
PyRound(n, d) ==
    LET q == n \div d
        r == n % d
    IN  IF 2 * r < d THEN q
        ELSE IF 2 * r > d THEN q + 1
        ELSE IF q % 2 = 0 THEN q ELSE q + 1

NoEvent == [ kind |-> "none" ]

\* mutant: the Mortality sweep registered before the Collision engine
initialize_world_HealthFirst ==
    << "MovementSystem", "WallCollisionSystem", "SpawnProtectionSystem", "ManaSystem",
       "SkillSystem", "HealthSystem", "BallCollisionSystem", "RotationSystem",
       "OrbitalSystem" >>

\* initialize_world: the processors in registration order
initialize_world ==
    << "MovementSystem", "WallCollisionSystem", "SpawnProtectionSystem", "ManaSystem",
       "SkillSystem", "BallCollisionSystem", "HealthSystem", "RotationSystem",
       "OrbitalSystem" >>

\* run_game adds the presentation processors after the world is built
processors == initialize_world \o << "RenderSystem", "UISystem" >>

(***************************************************************************)
(* main.py: select_skills.  sel holds its local variables; result is       *)
(* "selecting" inside the loop, "back", "returned" or "KeyError" after it.  *)
(***************************************************************************)
\* list(SKILLS_PRESETS.keys())
skill_names == << "Shield", "Berserk", "Heal", "Giant", "Shrink" >>

\* None in a slot of selected_p1 / selected_p2
NoSkill == "None"

\* all(s is not None for s in selected)
AllFilled(selected) == \A i \in 0..3 : selected[i] # NoSkill

\* the local variables before the loop
SelStart ==
    [ selected_p1 |-> [ i \in 0..3 |-> NoSkill ],
      selected_p2 |-> [ i \in 0..3 |-> NoSkill ],
      cursor_p1 |-> 0, cursor_p2 |-> 0,
      highlight_p1 |-> 0, highlight_p2 |-> 0,
      done_p1 |-> FALSE, done_p2 |-> FALSE,
      result |-> "selecting" ]

\* select_skills has returned the skills of SkillSlots for both players
SelDone ==
    [ selected_p1 |-> [ i \in 0..3 |-> skill_names[i + 1] ],
      selected_p2 |-> [ i \in 0..3 |-> skill_names[i + 1] ],
      cursor_p1 |-> 4, cursor_p2 |-> 4,
      highlight_p1 |-> 3, highlight_p2 |-> 3,
      done_p1 |-> TRUE, done_p2 |-> TRUE,
      result |-> "returned" ]

\* KEYDOWN, player 1 controls
P1Key(s, key, over) ==
    IF s.done_p1 THEN s
    ELSE IF key = "K_w" THEN [ s EXCEPT !.cursor_p1 = (@ - 1) % 5 ]
    ELSE IF key = "K_s" THEN [ s EXCEPT !.cursor_p1 = (@ + 1) % 5 ]
    ELSE IF key = "K_a"
      THEN IF s.cursor_p1 < 4
             THEN [ s EXCEPT !.highlight_p1 = (@ - 1) % Len(skill_names) ] ELSE s
    ELSE IF key = "K_d"
      THEN IF s.cursor_p1 < 4
             THEN [ s EXCEPT !.highlight_p1 = (@ + 1) % Len(skill_names) ] ELSE s
    ELSE IF key = "K_e"
      THEN IF s.cursor_p1 < 4
             THEN [ s EXCEPT !.selected_p1[s.cursor_p1] = skill_names[s.highlight_p1 + 1] ]
             ELSE s
    ELSE IF key = "K_RETURN"
      THEN IF s.cursor_p1 = 4 \/ over
             THEN IF AllFilled(s.selected_p1) THEN [ s EXCEPT !.done_p1 = TRUE ]
                                              ELSE [ s EXCEPT !.cursor_p1 = 4 ]
             ELSE s
    ELSE s

\* KEYDOWN, player 2 controls
P2Key(s, key) ==
    IF s.done_p2 THEN s
    ELSE IF key = "K_UP" THEN [ s EXCEPT !.cursor_p2 = (@ - 1) % 5 ]
    ELSE IF key = "K_DOWN" THEN [ s EXCEPT !.cursor_p2 = (@ + 1) % 5 ]
    ELSE IF key = "K_LEFT"
      THEN IF s.cursor_p2 < 4
             THEN [ s EXCEPT !.highlight_p2 = (@ - 1) % Len(skill_names) ] ELSE s
    ELSE IF key = "K_RIGHT"
      THEN IF s.cursor_p2 < 4
             THEN [ s EXCEPT !.highlight_p2 = (@ + 1) % Len(skill_names) ] ELSE s
    ELSE IF key = "K_RETURN"
      THEN IF s.cursor_p2 < 4
             THEN [ s EXCEPT !.selected_p2[s.cursor_p2] = skill_names[s.highlight_p2 + 1] ]
             ELSE IF AllFilled(s.selected_p2) THEN [ s EXCEPT !.done_p2 = TRUE ] ELSE s
    ELSE s

\* MOUSEBUTTONDOWN on a PRONTO button: ready whatever the slots hold
PressPronto(s, player) ==
    IF player = 1 /\ ~s.done_p1 THEN [ s EXCEPT !.cursor_p1 = 4, !.done_p1 = TRUE ]
    ELSE IF player = 2 /\ ~s.done_p2 THEN [ s EXCEPT !.cursor_p2 = 4, !.done_p2 = TRUE ]
    ELSE s

\* SKILLS_PRESETS[name] for name in selected_p1 / selected_p2
Converted(s) ==
    IF AllFilled(s.selected_p1) /\ AllFilled(s.selected_p2) THEN "returned" ELSE "KeyError"

(***************************************************************************)
(* main.py: select_classes_and_spawns, the spawn loop.  spawn holds its    *)
(* local variables; the cursors are in quarter pixels (the arena's quarter *)
(* points are not whole pixels); result is "selecting" inside the loop,    *)
(* "back" or "returned" after it.                                          *)
(***************************************************************************)
\* move_speed = 6 pixels, in quarter pixels
move_speed == 24

\* the cursors start inside the arena: left and right quarters
SpawnStart(c1, c2) ==
    [ chosen_p1 |-> c1, chosen_p2 |-> c2,
      cursor_p1 |-> << 4 * ARENA_X + ARENA_SIZE, 4 * ARENA_Y + 2 * ARENA_SIZE >>,
      cursor_p2 |-> << 4 * ARENA_X + 3 * ARENA_SIZE, 4 * ARENA_Y + 2 * ARENA_SIZE >>,
      spawn_confirmed_p1 |-> FALSE, spawn_confirmed_p2 |-> FALSE,
      result |-> "selecting" ]

\* the loop has ended with both spawns confirmed at (x1, y1) and (x2, y2), in pixels
SpawnReturned(c1, x1, y1, c2, x2, y2) ==
    [ chosen_p1 |-> c1, chosen_p2 |-> c2,
      cursor_p1 |-> << 4 * x1, 4 * y1 >>, cursor_p2 |-> << 4 * x2, 4 * y2 >>,
      spawn_confirmed_p1 |-> TRUE, spawn_confirmed_p2 |-> TRUE,
      result |-> "returned" ]

\* both players confirmed where the cursors start
SpawnDone ==
    [ SpawnStart("Knight", "Knight") EXCEPT !.spawn_confirmed_p1 = TRUE,
                                            !.spawn_confirmed_p2 = TRUE,
                                            !.result = "returned" ]

WorldInit ==
    /\ pc = 0
    /\ pairIdx = << 1, 2 >>
    /\ frame = 0
    /\ match_running = TRUE
    /\ quit_game = FALSE
    /\ winner = NoWinner
    /\ current_time = 0
    /\ ticks \in StartTicks
    /\ dt = 0
    /\ entities = {arena} \cup Balls \cup Items
    /\ dead = {}
    /\ hp = [ e \in Balls |-> BallData[e].max_hp ]
    /\ prot = [ e \in Balls |-> ProtectionTime ]
    /\ cdLast = [ e \in Balls |-> 0 ]
    /\ mana = [ e \in Balls |-> MaxManaMilli ]
    /\ lastCast = [ e \in Balls |-> [ i \in 0..3 |-> Never ] ]
    /\ effect = [ e \in {} |-> NoEvent ]
    /\ popups = << >>
    /\ ran = << >>
    /\ last = NoEvent
    /\ hitAt = [ e \in Balls |-> Never ]

\* the geometry is not tracked: every geometric test is an input
Init ==
    /\ WorldInit
    /\ pos = [ e \in {} |-> 0 ]
    /\ vel = [ e \in {} |-> 0 ]
    /\ phys = [ e \in {} |-> 0 ]
    /\ rot = [ e \in {} |-> 0 ]
    /\ orb = [ e \in {} |-> 0 ]
    /\ desired = [ e \in {} |-> 0 ]
    /\ spawn = SpawnDone
    /\ sel = SelDone

(***************************************************************************)
(* run_game: the match loop.                                               *)
(***************************************************************************)
\* esper.add_component(e, SkillEffect(...)): one component per type and entity
AddSkillEffect(e, skill) ==
    [ x \in DOMAIN effect \cup {e} |->
        IF x = e THEN [ effect_type |-> skill.effect_type,
                        effect_value |-> skill.effect_value,
                        time_remaining |-> skill.effect_duration ]
                 ELSE effect[x] ]

\* mutant: last_cast_time starts at 0.0 instead of -inf
CanCast_ZeroStamp(e, i) ==
    /\ entity_exists(e)
    /\ e \in Balls
    /\ get_slot(e, i) # NoSlot
    /\ mana[e] >= get_slot(e, i).mana_cost
    /\ current_time - Max(0, lastCast[e][i]) >= get_slot(e, i).cooldown

\* mutant: the cooldown of the slot is not consulted
CanCast_NoCooldown(e, i) ==
    /\ entity_exists(e)
    /\ e \in Balls
    /\ get_slot(e, i) # NoSlot
    /\ mana[e] >= get_slot(e, i).mana_cost

\* the validation of a cast: entity, slot, mana and cooldown
CanCast(e, i) ==
    /\ entity_exists(e)
    /\ e \in Balls
    /\ get_slot(e, i) # NoSlot
    /\ mana[e] >= get_slot(e, i).mana_cost
    /\ \/ lastCast[e][i] = Never
       \/ current_time - lastCast[e][i] >= get_slot(e, i).cooldown

\* a KEYDOWN event of a skill key
Cast(e, i) ==
    /\ pc = 0
    /\ match_running
    /\ IF CanCast(e, i)
         THEN /\ lastCast' = [ lastCast EXCEPT ![e][i] = current_time ]
              /\ mana' = [ mana EXCEPT ![e] = @ - SkillSlots[e][i].mana_cost ]
              /\ effect' = AddSkillEffect(e, SkillSlots[e][i])
              /\ last' = [ kind |-> "cast", e |-> e, slot |-> i ]
         ELSE /\ last' = [ kind |-> "nocast", e |-> e, slot |-> i ]
              /\ UNCHANGED << lastCast, mana, effect >>
    /\ UNCHANGED << pc, pairIdx, frame, match_running, quit_game, winner, current_time, ticks, dt,
                    entities, dead, hp, prot, cdLast, popups, ran, hitAt >>
    /\ UNCHANGED << pos, vel, phys, sel, rot, orb, desired, spawn >>

\* get_ticks() at the clock.tick() call that brings the match time to t: both clocks
\* measure the same wall time.  Every get_ticks() of a frame returns this value: the
\* processors of a frame run within the millisecond of its clock.tick().
TicksAtTick(t) == (CHOOSE t0 \in StartTicks : TRUE) + t

\* dt = clock.tick(FPS)/1000.0; current_time += dt; esper.process(dt) begins with
\* clear_dead_entities()
BeginFrame(d) ==
    /\ dt' = d
    /\ current_time' = current_time + d
    /\ ticks' = TicksAtTick(current_time + d)
    /\ entities' = entities \ dead
    /\ dead' = {}
    /\ popups' = SelectSeq(popups, LAMBDA p : ~p.dead)
    /\ pc' = 1
    /\ frame' = frame + 1
    /\ ran' = << >>
    /\ last' = NoEvent
    /\ UNCHANGED << pairIdx, winner, hp, prot, cdLast, mana, lastCast, effect, hitAt >>
    /\ UNCHANGED << pos, vel, phys, sel, rot, orb, desired, spawn >>

\* the event queue is empty (or was emptied): the frame begins
Tick ==
    /\ pc = 0
    /\ match_running
    /\ frame < MaxFrames
    /\ \E d \in DtSet : BeginFrame(d)
    /\ UNCHANGED << match_running, quit_game >>

\* a QUIT event or KEYDOWN of ESC: match_running = False, quit_game = True, break;
\* the break leaves the event loop only, the frame still runs
Quit ==
    /\ pc = 0
    /\ match_running
    /\ frame < MaxFrames
    /\ match_running' = FALSE
    /\ quit_game' = TRUE
    /\ \E d \in DtSet : BeginFrame(d)

Running(name) == pc \in 1..Len(processors) /\ processors[pc] = name

Done(name) == pc' = pc + 1 /\ ran' = Append(ran, name)

(***************************************************************************)
(* systems.py: the processors.                                             *)
(***************************************************************************)
\* left, top, right and bottom as WallCollisionSystem computes them
left == ARENA_X

top == ARENA_Y

right == ARENA_X + ARENA_SIZE

bottom == ARENA_Y + ARENA_SIZE

\* the bodies whose Position, Velocity and Physics are tracked and alive
Tracked == DOMAIN pos \cap DOMAIN vel \cap entities

\* the quotient a / b of the float arithmetic, defined only where it is an
\* integer: the placements of GeomSpec keep every quotient exact
Quot(a, b) == IF a % b = 0 THEN a \div b ELSE CHOOSE q \in {} : q * b = a

\* pos += vel * dt on one axis (dt in ms)
Moved(p, v, d) == p + Quot(v * d, 1000)

\* vel *= -phys.restitution (restitution in thousandths)
Bounce(v, restitution) == Quot(-(v * restitution), 1000)

WallAxis_NoClamp(p, v, r, lo, hi, restitution) ==
    IF p - r < lo THEN << p, Bounce(v, restitution) >>
    ELSE IF p + r > hi THEN << p, Bounce(v, restitution) >>
    ELSE << p, v >>

\* one axis of the circle branch: position and velocity after the if / elif
WallAxis(p, v, r, lo, hi, restitution) ==
    IF p - r < lo THEN << lo + r, Bounce(v, restitution) >>
    ELSE IF p + r > hi THEN << hi - r, Bounce(v, restitution) >>
    ELSE << p, v >>

\* Position, Velocity and Physics of the entities created by create_ball move;
\* orbital items carry no Velocity
MovementSystem ==
    /\ Running("MovementSystem")
    /\ Done("MovementSystem")
    /\ last' = NoEvent
    /\ pos' = [ e \in DOMAIN pos |->
                  IF e \in Tracked
                    THEN [ pos[e] EXCEPT !.x = Moved(@, vel[e].vx, dt),
                                         !.y = Moved(@, vel[e].vy, dt) ]
                    ELSE pos[e] ]
    /\ UNCHANGED << pairIdx, frame, match_running, quit_game, winner, current_time, ticks, dt,
                    entities, dead, hp, prot, cdLast, mana, lastCast, effect, popups,
                    hitAt, vel, phys, sel, rot, orb, desired, spawn >>

\* the circle branch on both axes, for every entity with Position, Velocity
\* and Physics (the balls: they have no HitboxRect)
WallCollisionSystem ==
    /\ Running("WallCollisionSystem")
    /\ Done("WallCollisionSystem")
    /\ last' = NoEvent
    /\ LET ax(e) == WallAxis(pos[e].x, vel[e].vx, pos[e].radius, left, right,
                             phys[e].restitution)
           ay(e) == WallAxis(pos[e].y, vel[e].vy, pos[e].radius, top, bottom,
                             phys[e].restitution)
       IN  /\ pos' = [ e \in DOMAIN pos |->
                         IF e \in Tracked
                           THEN [ pos[e] EXCEPT !.x = ax(e)[1], !.y = ay(e)[1] ]
                           ELSE pos[e] ]
           /\ vel' = [ e \in DOMAIN vel |->
                         IF e \in Tracked
                           THEN [ vx |-> ax(e)[2], vy |-> ay(e)[2] ]
                           ELSE vel[e] ]
    /\ UNCHANGED << pairIdx, frame, match_running, quit_game, winner, current_time, ticks, dt,
                    entities, dead, hp, prot, cdLast, mana, lastCast, effect, popups,
                    hitAt, phys, sel, rot, orb, desired, spawn >>

\* mutant: the component is removed only when time < 0
ProtectionLeft_Strict(time, d) == time - d >= 0

\* protection.time -= dt; if protection.time <= 0: remove_component
ProtectionLeft(time, d) == time - d > 0

\* protection.time -= dt; the component is removed when time <= 0
SpawnProtectionSystem ==
    /\ Running("SpawnProtectionSystem")
    /\ prot' = [ e \in { x \in DOMAIN prot : ProtectionLeft(prot[x], dt) } |->
                  prot[e] - dt ]
    /\ Done("SpawnProtectionSystem")
    /\ last' = NoEvent
    /\ UNCHANGED << pairIdx, frame, match_running, quit_game, winner, current_time, ticks, dt,
                    entities, dead, hp, cdLast, mana, lastCast, effect, popups, hitAt >>
    /\ UNCHANGED << pos, vel, phys, sel, rot, orb, desired, spawn >>

\* mutant: the regeneration is not capped
Regen_NoCap(cur, d) == cur + (RegenMilliPerSec * d) \div 1000

\* current_mana = min(max_mana, current_mana + regen_rate * dt)
Regen(cur, d) == Min(MaxManaMilli, cur + (RegenMilliPerSec * d) \div 1000)

ManaSystem ==
    /\ Running("ManaSystem")
    /\ mana' = [ e \in DOMAIN mana |->
                   IF e \in entities THEN Regen(mana[e], dt) ELSE mana[e] ]
    /\ Done("ManaSystem")
    /\ last' = NoEvent
    /\ UNCHANGED << pairIdx, frame, match_running, quit_game, winner, current_time, ticks, dt,
                    entities, dead, hp, prot, cdLast, lastCast, effect, popups, hitAt >>
    /\ UNCHANGED << pos, vel, phys, sel, rot, orb, desired, spawn >>

\* mutant: the heal is also applied when time_remaining is exactly 0
HealDue_AtZero(eff) == eff.effect_type = "heal" /\ eff.time_remaining <= 0

\* effect.effect_type == 'heal' and effect.time_remaining < 0, after the aging
HealDue(eff) == eff.effect_type = "heal" /\ eff.time_remaining < 0

\* mutant: the heal is not capped at max_hp
HealedHp_NoCap(cur, max_hp, value) == cur + value \div 100

\* current_hp = min(max_hp, current_hp + int(effect_value))
HealedHp(cur, max_hp, value) == Min(max_hp, cur + value \div 100)

\* effect.time_remaining <= 0: the effect is removed
Expired(eff) == eff.time_remaining <= 0

\* ages every SkillEffect, applies a heal whose time fell below 0, removes the expired
SkillSystem ==
    /\ Running("SkillSystem")
    /\ LET aged == [ e \in DOMAIN effect |->
                       [ effect[e] EXCEPT !.time_remaining = @ - dt ] ]
           healed == { e \in DOMAIN effect : HealDue(aged[e]) /\ HasHealth(e) }
           removed == { e \in DOMAIN effect : Expired(aged[e]) }
       IN  /\ hp' = [ e \in DOMAIN hp |->
                        IF e \in healed
                          THEN HealedHp(hp[e], BallData[e].max_hp, aged[e].effect_value)
                          ELSE hp[e] ]
           /\ effect' = [ e \in DOMAIN effect \ removed |-> aged[e] ]
           /\ last' = [ kind |-> "skill",
                        healed |-> [ e \in healed |-> hp[e] ],
                        removed |-> [ e \in removed |-> effect[e].effect_type ] ]
    /\ Done("SkillSystem")
    /\ UNCHANGED << pairIdx, frame, match_running, quit_game, winner, current_time, ticks, dt,
                    entities, dead, prot, cdLast, mana, lastCast, popups, hitAt >>
    /\ UNCHANGED << pos, vel, phys, sel, rot, orb, desired, spawn >>

(***************************************************************************)
(* BallCollisionSystem.                                                    *)
(***************************************************************************)
\* the list built from esper.get_components(Position, Physics), in entity order
collidable_entities ==
    SelectSeq(<< 2, 3, 4, 5, 6 >>, LAMBDA e : HasPosition(e) /\ HasPhysics(e))

\* for i in range(n): for j in range(i + 1, n): the pair after <<i, j>> (1-based)
NextPair(p, n) ==
    IF p[2] < n THEN << p[1], p[2] + 1 >>
    ELSE IF p[1] + 2 <= n THEN << p[1] + 1, p[1] + 2 >>
    ELSE << >>

\* ent_is_item: the entity has both OrbitalItem and Item
IsItem(e) == HasOrbitalItem(e) /\ HasItem(e)

get_entity_damage(e) ==
    IF HasItem(e) THEN ItemData[e].damage
    ELSE IF HasDamage(e) THEN BallData[e].body_damage
    ELSE 0

\* outgoing damage multiplier in hundredths: an active damage_boost effect, else 1.0
get_active_damage_boost_multiplier(e) ==
    IF /\ HasSkillEffect(e)
       /\ effect[e].effect_type = "damage_boost"
       /\ effect[e].time_remaining > 0
      THEN Max(0, effect[e].effect_value)
      ELSE 100

\* incoming damage reduction in hundredths: an active damage_reduction effect, else 0
get_active_damage_reduction_ratio(e) ==
    IF /\ HasSkillEffect(e)
       /\ effect[e].effect_type = "damage_reduction"
       /\ effect[e].time_remaining > 0
      THEN Max(0, Min(100, effect[e].effect_value))
      ELSE 0

\* mutant: two items of different owners fall through to the item-body branch
DamageBranch_ItemItemDamages(e1, e2) ==
    IF ~IsItem(e1) /\ ~IsItem(e2) THEN "body_body"
    ELSE IF /\ IsItem(e1) /\ IsItem(e2)
            /\ ItemData[e1].parent_entity = ItemData[e2].parent_entity
      THEN "same_parent"
    ELSE "item_body"

\* the branch of the damage arbitration that a colliding pair takes
DamageBranch(e1, e2) ==
    IF ~IsItem(e1) /\ ~IsItem(e2) THEN "body_body"
    ELSE IF IsItem(e1) /\ IsItem(e2)
      THEN IF ItemData[e1].parent_entity = ItemData[e2].parent_entity
             THEN "same_parent" ELSE "item_item"
    ELSE "item_body"

\* mutant: the self-hit test is missing
SelfHit_Never(parent_ent, body_ent) == FALSE

\* item collided with its own parent
SelfHit(parent_ent, body_ent) == parent_ent = body_ent

\* mutant: the spawn-protection gate is missing
SpawnProtectionVeto_Never(body_ent, parent_ent) == FALSE

\* either side has spawn protection
SpawnProtectionVeto(body_ent, parent_ent) ==
    HasSpawnProtection(body_ent) \/ HasSpawnProtection(parent_ent)

OnCooldown(e, now) == HasDamageCooldown(e) /\ now - cdLast[e] < CooldownTime

\* mutant: only the body's cooldown is consulted
CooldownVeto_BodyOnly(body_ent, parent_ent, now) == OnCooldown(body_ent, now)

\* either side is on damage cooldown
CooldownVeto(body_ent, parent_ent, now) ==
    OnCooldown(body_ent, now) \/ OnCooldown(parent_ent, now)

\* int(max(0, round(item_damage * attacker_boost))), the boost in hundredths
base_damage(item_damage, attacker_boost) ==
    Max(0, PyRound(item_damage * attacker_boost, 100))

\* damage_to_body: the base damage of the item under its owner's boost
DamageToBody(item_ent, parent_ent) ==
    LET attacker_boost == IF entity_exists(parent_ent)
                            THEN get_active_damage_boost_multiplier(parent_ent)
                            ELSE 100
    IN  base_damage(ItemData[item_ent].damage, attacker_boost)

\* the damage values of ITEMS_PRESETS: Shield, Staff, Katana, Sword, Orb
ItemDamages == {0, 1, 3, 5, 8}

\* the orbital items of the body that can block: Item and HitboxRect
ShieldsOf(body_ent) ==
    { s \in entities : /\ HasPosition(s) /\ HasOrbitalItem(s)
                       /\ ItemData[s].parent_entity = body_ent
                       /\ HasItem(s) /\ HasHitboxRect(s) }

\* mutant: the reductions of the intercepting shields are summed
RECURSIVE InterceptedReduction_Sum(_)
InterceptedReduction_Sum(icpt) ==
    IF icpt = {} THEN 0
    ELSE LET s == CHOOSE x \in icpt : TRUE
         IN  InterceptedReduction_Sum(icpt \ {s}) + ItemData[s].damage_reduction

\* intercepted_reduction over the shields whose rectangle the attacker overlaps
RECURSIVE InterceptedReduction(_)
InterceptedReduction(icpt) ==
    IF icpt = {} THEN 0
    ELSE LET s == CHOOSE x \in icpt : TRUE
         IN  Max(InterceptedReduction(icpt \ {s}), ItemData[s].damage_reduction)

\* final_damage = int(max(0, round(damage_to_body * total_multiplier)))
FinalDamage(damage_to_body, icpt, body_ent) ==
    LET intercepted_reduction == InterceptedReduction(icpt)
        defender_skill_reduction == get_active_damage_reduction_ratio(body_ent)
    IN  Max(0, PyRound(damage_to_body * (100 - Max(0, Min(100, intercepted_reduction)))
                                      * (100 - defender_skill_reduction), 10000))

\* mutant: every shield of the owner reduces the damage that comes back
DamageToParent_AnyShield(item_ent, body_ent, parent_ent, facing) ==
    LET boosted_body_damage ==
            get_entity_damage(body_ent) * get_active_damage_boost_multiplier(body_ent)
        item_block_reduction == InterceptedReduction(ShieldsOf(parent_ent))
        defender2_skill_reduction == get_active_damage_reduction_ratio(parent_ent)
    IN  Max(0, PyRound(boosted_body_damage * (100 - item_block_reduction)
                                           * (100 - defender2_skill_reduction), 1000000))

\* damage_to_parent = int(max(0, round(boosted_body_damage * total_multiplier2)))
DamageToParent(item_ent, body_ent, parent_ent, facing) ==
    LET boosted_body_damage ==
            get_entity_damage(body_ent) * get_active_damage_boost_multiplier(body_ent)
        item_block_reduction == IF facing /\ entity_exists(parent_ent)
                                  THEN ItemData[item_ent].damage_reduction ELSE 0
        defender2_skill_reduction == get_active_damage_reduction_ratio(parent_ent)
    IN  Max(0, PyRound(boosted_body_damage * (100 - item_block_reduction)
                                           * (100 - defender2_skill_reduction), 1000000))

\* whether the body's own cooldown is stamped with the body's hp loss
StampBody(body_ent) == HasDamageCooldown(body_ent)

\* mutant: the owner's cooldown is never stamped
StampParent_Never(parent_ent) == FALSE

\* whether the owner's cooldown is stamped with the owner's hp loss
StampParent(parent_ent) == HasDamageCooldown(parent_ent)

\* the gate at which the damage arbitration of a colliding pair ends
Gate(e1, e2, now) ==
    LET item_ent == IF IsItem(e1) THEN e1 ELSE e2
        body_ent == IF IsItem(e1) THEN e2 ELSE e1
    IN  IF DamageBranch(e1, e2) # "item_body" THEN DamageBranch(e1, e2)
        ELSE IF SelfHit(ItemData[item_ent].parent_entity, body_ent) THEN "self"
        ELSE IF SpawnProtectionVeto(body_ent, ItemData[item_ent].parent_entity)
          THEN "protected"
        ELSE IF CooldownVeto(body_ent, ItemData[item_ent].parent_entity, now)
          THEN "cooldown"
        ELSE "hit"

\* one iteration of the loops over the pairs: pair (e1, e2), with the inputs
\* collision (narrow phase), icpt (the body's shields that the attacker's circle
\* overlaps), facing (the item is between its owner and the body)
ResolvePair(e1, e2, collision, icpt, facing) ==
    LET now == ticks
        gate == IF collision THEN Gate(e1, e2, now) ELSE "apart"
        item_ent == IF IsItem(e1) THEN e1 ELSE e2
        body_ent == IF IsItem(e1) THEN e2 ELSE e1
        base == [ kind |-> "pair", e1 |-> e1, e2 |-> e2, gate |-> gate, now |-> now ]
    IN  IF gate # "hit"
          THEN /\ last' = base
               /\ UNCHANGED << hp, cdLast, popups >>
          ELSE
            LET parent_ent == ItemData[item_ent].parent_entity
                damage_to_body == DamageToBody(item_ent, parent_ent)
                body_hit == HasHealth(body_ent) /\ damage_to_body > 0
                final_damage == FinalDamage(damage_to_body, icpt, body_ent)
                hp1 == IF body_hit THEN [ hp EXCEPT ![body_ent] = @ - final_damage ]
                                   ELSE hp
                cd1 == IF body_hit /\ StampBody(body_ent)
                         THEN [ cdLast EXCEPT ![body_ent] = now ] ELSE cdLast
                damage_to_parent == DamageToParent(item_ent, body_ent, parent_ent, facing)
                parent_hit == /\ entity_exists(parent_ent) /\ HasHealth(parent_ent)
                              /\ damage_to_parent > 0
            IN  /\ hp' = IF parent_hit
                           THEN [ hp1 EXCEPT ![parent_ent] = @ - damage_to_parent ]
                           ELSE hp1
                /\ cdLast' = IF parent_hit /\ StampParent(parent_ent)
                               THEN [ cd1 EXCEPT ![parent_ent] = now ] ELSE cd1
                /\ popups' = IF body_hit
                               THEN Append(popups, [ amount |-> final_damage,
                                                     target_entity |-> body_ent,
                                                     time_left |-> PopupDuration,
                                                     dead |-> FALSE ])
                               ELSE popups
                /\ last' = [ base EXCEPT !.kind = "hit" ] @@
                           [ item |-> item_ent, body |-> body_ent, parent |-> parent_ent,
                             icpt |-> icpt, facing |-> facing,
                             damage_to_body |-> damage_to_body, body_hit |-> body_hit,
                             final_damage |-> final_damage, parent_hit |-> parent_hit,
                             damage_to_parent |-> damage_to_parent ]

\* math.sqrt of a perfect square
Sqrt(n) == CHOOSE r \in 0..n : r * r = n

\* circle-circle narrow phase on two Positions: dx, dy, distance_sq, min_distance
CircleDx(p1, p2) == p2.x - p1.x

CircleDy(p1, p2) == p2.y - p1.y

distance_sq(p1, p2) ==
    CircleDx(p1, p2) * CircleDx(p1, p2) + CircleDy(p1, p2) * CircleDy(p1, p2)

min_distance(p1, p2) == p1.radius + p2.radius

\* mutant: coincident centres count as a collision
CircleCollision_NoZeroTest(p1, p2) ==
    distance_sq(p1, p2) < min_distance(p1, p2) * min_distance(p1, p2)

\* if distance_sq < (min_distance * min_distance) and distance_sq > 0
CircleCollision(p1, p2) ==
    /\ distance_sq(p1, p2) < min_distance(p1, p2) * min_distance(p1, p2)
    /\ distance_sq(p1, p2) > 0

overlap(p1, p2) == min_distance(p1, p2) - Sqrt(distance_sq(p1, p2))

\* n * overlap * move_ratio on one axis, with n = d / distance and
\* move_ratio = other_mass / total_mass
MoveOut(d, p1, p2, other_mass, total_mass) ==
    Quot(d * overlap(p1, p2) * other_mass, Sqrt(distance_sq(p1, p2)) * total_mass)

\* pos1 -= n * overlap * move_ratio1; pos2 += n * overlap * move_ratio2:
\* the two Positions after the correction
Correction(p1, p2, ph1, ph2) ==
    LET total_mass == ph1.mass + ph2.mass
    IN  << [ p1 EXCEPT !.x = @ - MoveOut(CircleDx(p1, p2), p1, p2, ph2.mass, total_mass),
                       !.y = @ - MoveOut(CircleDy(p1, p2), p1, p2, ph2.mass, total_mass) ],
           [ p2 EXCEPT !.x = @ + MoveOut(CircleDx(p1, p2), p1, p2, ph1.mass, total_mass),
                       !.y = @ + MoveOut(CircleDy(p1, p2), p1, p2, ph1.mass, total_mass) ] >>

\* (rvx * nx + rvy * ny) * distance: it has the sign of vel_along_normal
RelativeDot(p1, p2, v1, v2) ==
    (v2.vx - v1.vx) * CircleDx(p1, p2) + (v2.vy - v1.vy) * CircleDy(p1, p2)

ImpulseFactor_NoBounce(e) == 1000

\* 1 + e of j_scalar = -(1 + e) * vel_along_normal, in thousandths
ImpulseFactor(e) == 1000 + e

\* impulse * inv_m on one axis:
\* j_scalar / denom * n * inv_m = -(1 + e) * vel_along_normal * n * other_mass / total_mass,
\* and vel_along_normal * n = RelativeDot * d / distance_sq
ImpulseOn(d, p1, p2, v1, v2, e, other_mass, total_mass) ==
    LET along == Quot(RelativeDot(p1, p2, v1, v2) * d, distance_sq(p1, p2))
    IN  Quot(-(ImpulseFactor(e) * along * other_mass), 1000 * total_mass)

\* vel1 -= impulse * inv_m1; vel2 += impulse * inv_m2, only when approaching:
\* the two Velocities after the velocity resolution
Impulse(p1, p2, v1, v2, ph1, ph2) ==
    LET e == Min(ph1.restitution, ph2.restitution)
        total_mass == ph1.mass + ph2.mass
        on(d, other_mass) == ImpulseOn(d, p1, p2, v1, v2, e, other_mass, total_mass)
    IN  IF RelativeDot(p1, p2, v1, v2) <= 0
          THEN << [ vx |-> v1.vx - on(CircleDx(p1, p2), ph2.mass),
                    vy |-> v1.vy - on(CircleDy(p1, p2), ph2.mass) ],
                  [ vx |-> v2.vx + on(CircleDx(p1, p2), ph1.mass),
                    vy |-> v2.vy + on(CircleDy(p1, p2), ph1.mass) ] >>
          ELSE << v1, v2 >>

\* create_orbital_item with the item's preset: HitboxRect (width, height),
\* Item.knockback_strength, OrbitalItem (orbit_radius, angular_speed in degrees
\* per second) and the angle index * (360 / total_items), in millidegrees
OrbitData ==
    [ e \in {3, 5, 6} |->
        CASE e = 3 -> [ width |-> 80, height |-> 60, knockback_strength |-> 40,
                        orbit_radius |-> 80, angular_speed |-> 90, angle |-> 0 ]
          [] e = 5 -> [ width |-> 80, height |-> 60, knockback_strength |-> 40,
                        orbit_radius |-> 60, angular_speed |-> 90, angle |-> 0 ]
          [] e = 6 -> [ width |-> 80, height |-> 60, knockback_strength |-> 40,
                        orbit_radius |-> 80, angular_speed |-> 90, angle |-> 180000 ] ]

\* create_ball attaches a Velocity, create_orbital_item does not
HasVelocity(e) == e \in entities /\ e \in Balls

\* the narrow phase found nothing
NoContact == [ collision |-> FALSE, dx |-> 1, dy |-> 0, dist |-> 1, overlap |-> 0 ]

\* aabb_of_rotated_rect of the HitboxRect of item e, whose Rotation is a
\* multiple of 180 degrees (the angles that create_orbital_item gives two items)
aabb_of_rotated_rect(e) ==
    LET half_w == Quot(OrbitData[e].width, 2)
        half_h == Quot(OrbitData[e].height, 2)
    IN  CHOOSE b \in { [ minx |-> pos[e].x - half_w, miny |-> pos[e].y - half_h,
                         maxx |-> pos[e].x + half_w, maxy |-> pos[e].y + half_h ] } :
          rot[e] % 180000 = 0

\* rect vs rect: the AABBs intersect; the normal (dx / dist, dy / dist) joins the
\* centres, (1, 0) when they coincide; overlap is the smaller penetration
RectRect(e1, e2) ==
    LET a1 == aabb_of_rotated_rect(e1)
        a2 == aabb_of_rotated_rect(e2)
        dx == pos[e2].x - pos[e1].x
        dy == pos[e2].y - pos[e1].y
        overlap_x == IF a1.maxx > a2.minx
                       THEN Min(a1.maxx - a2.minx, a2.maxx - a1.minx) ELSE 0
        overlap_y == IF a1.maxy > a2.miny
                       THEN Min(a1.maxy - a2.miny, a2.maxy - a1.miny) ELSE 0
    IN  IF /\ a1.minx <= a2.maxx /\ a1.maxx >= a2.minx
           /\ a1.miny <= a2.maxy /\ a1.maxy >= a2.miny
          THEN [ collision |-> TRUE,
                 dx |-> IF dx * dx + dy * dy > 0 THEN dx ELSE 1,
                 dy |-> IF dx * dx + dy * dy > 0 THEN dy ELSE 0,
                 dist |-> IF dx * dx + dy * dy > 0 THEN Sqrt(dx * dx + dy * dy) ELSE 1,
                 overlap |-> IF overlap_x > 0 /\ overlap_y > 0
                               THEN Min(overlap_x, overlap_y)
                               ELSE Max(overlap_x, overlap_y) ]
          ELSE NoContact

\* circle_vs_rotated_rect of ball c and item e (Rotation a multiple of 180
\* degrees) where the circle is clear of the rectangle: dist_sq >= circle_r ^ 2.
\* The placements keep the balls clear of the items at their creation Position.
CircleRect(c, e) ==
    LET half_w == Quot(OrbitData[e].width, 2)
        half_h == Quot(OrbitData[e].height, 2)
        ca == IF rot[e] % 360000 = 0 THEN 1 ELSE -1
        local_x == ca * (pos[c].x - pos[e].x)
        local_y == ca * (pos[c].y - pos[e].y)
        nx_local == local_x - Max(-half_w, Min(local_x, half_w))
        ny_local == local_y - Max(-half_h, Min(local_y, half_h))
    IN  CHOOSE r \in {NoContact} :
          /\ rot[e] % 180000 = 0
          /\ nx_local * nx_local + ny_local * ny_local
               >= pos[c].radius * pos[c].radius

\* the narrow phase of a tracked pair of which at least one has a HitboxRect
RectContact(e1, e2) ==
    IF HasHitboxRect(e1) /\ HasHitboxRect(e2) THEN RectRect(e1, e2)
    ELSE IF HasHitboxRect(e2) THEN CircleRect(e1, e2)
    ELSE CircleRect(e2, e1)

\* pos1 -= n * overlap * move_ratio1; pos2 += n * overlap * move_ratio2 for the
\* contact c: the two Positions after the correction
PushApart(p1, p2, ph1, ph2, c) ==
    LET total_mass == ph1.mass + ph2.mass
        out(d, other_mass) == Quot(d * c.overlap * other_mass, c.dist * total_mass)
    IN  << [ p1 EXCEPT !.x = @ - out(c.dx, ph2.mass), !.y = @ - out(c.dy, ph2.mass) ],
           [ p2 EXCEPT !.x = @ + out(c.dx, ph1.mass), !.y = @ + out(c.dy, ph1.mass) ] >>

\* knockback_impulse: the knockback_strength of the items of the pair
knockback_impulse(e1, e2) ==
    (IF IsItem(e1) THEN OrbitData[e1].knockback_strength ELSE 0)
      + (IF IsItem(e2) THEN OrbitData[e2].knockback_strength ELSE 0)

\* if knockback_impulse > 0 and vel1_comp and vel2_comp, within
\* if ent1_is_item or ent2_is_item
KnockbackApplies(e1, e2) ==
    /\ IsItem(e1) \/ IsItem(e2)
    /\ knockback_impulse(e1, e2) > 0
    /\ HasVelocity(e1) /\ HasVelocity(e2)

\* vel -= knockback * n * inv_m (sign -1) or vel += knockback * n * inv_m (sign 1),
\* the mass in tenths
Knocked(v, c, knockback, mass, sign) ==
    [ vx |-> v.vx + sign * Quot(knockback * c.dx * 10, c.dist * mass),
      vy |-> v.vy + sign * Quot(knockback * c.dy * 10, c.dist * mass) ]

\* create_orbital_item: Position(0, 0, 6)
ItemPosition == [ x |-> 0, y |-> 0, radius |-> 6 ]

\* create_orbital_item: Physics(0.1, 1.0), mass in tenths, restitution in thousandths
ItemPhysics == [ mass |-> 1, restitution |-> 1000 ]

\* mutant: the Velocity is left as the collision made it
renormalize_if_desired_Never(v, speed) == v

\* _renormalize_if_desired: mag = math.hypot(vx, vy); if mag > 1e-6 and
\* target > 0, vx and vy are multiplied by scale = target / mag
renormalize_if_desired(v, speed) ==
    LET mag == Sqrt(v.vx * v.vx + v.vy * v.vy)
    IN  IF mag > 0 /\ speed > 0
          THEN [ vx |-> Quot(v.vx * speed, mag), vy |-> Quot(v.vy * speed, mag) ]
          ELSE v

\* the two calls of _renormalize_if_desired that end the block
\* if ent1_is_item or ent2_is_item, on the velocities v
Renormalized(v, e1, e2) ==
    [ e \in DOMAIN v |->
        IF /\ IsItem(e1) \/ IsItem(e2)
           /\ e \in {e1, e2} /\ e \in DOMAIN desired
          THEN renormalize_if_desired(v[e], desired[e]) ELSE v[e] ]

\* what the narrow phase returns when the circle of a tracked ball and the
\* HitboxRect of an item whose Position is not tracked overlap: the normal
\* along the x axis, the circle 31 px into the rectangle
ItemContacts ==
    { [ collision |-> TRUE, dx |-> 1, dy |-> 0, dist |-> 1, overlap |-> 31 ] }

\* pc after an exception has left esper.process(): the program has ended
Crashed == -1

BallCollisionSystem ==
    /\ Running("BallCollisionSystem")
    /\ LET ents == collidable_entities
       IN  IF Len(ents) < 2
             THEN /\ Done("BallCollisionSystem")
                  /\ last' = NoEvent
                  /\ UNCHANGED << pairIdx, hp, cdLast, popups, hitAt, pos, vel >>
             ELSE
               LET e1 == ents[pairIdx[1]]
                   e2 == ents[pairIdx[2]]
                   body_ent == IF IsItem(e1) THEN e2 ELSE e1
                   circles == ~HasHitboxRect(e1) /\ ~HasHitboxRect(e2)
                   tracked == {e1, e2} \subseteq DOMAIN pos
                   \* distance = math.sqrt(distance_sq); nx = dx / distance
                   zero_division == /\ tracked /\ circles
                                    /\ CircleCollision(pos[e1], pos[e2])
                                    /\ Sqrt(distance_sq(pos[e1], pos[e2])) = 0
               IN  IF zero_division
                     THEN /\ last' = [ kind |-> "ZeroDivisionError", e1 |-> e1, e2 |-> e2 ]
                          /\ pc' = Crashed
                          /\ UNCHANGED << pairIdx, ran, hp, cdLast, popups, hitAt, pos, vel >>
                     ELSE
                   /\ IF tracked /\ circles
                        THEN LET collision == CircleCollision(pos[e1], pos[e2])
                                 p == Correction(pos[e1], pos[e2], phys[e1], phys[e2])
                                 v == Impulse(pos[e1], pos[e2], vel[e1], vel[e2],
                                              phys[e1], phys[e2])
                             IN  /\ ResolvePair(e1, e2, collision, {}, FALSE)
                                 /\ pos' = IF collision
                                             THEN [ pos EXCEPT ![e1] = p[1], ![e2] = p[2] ]
                                             ELSE pos
                                 /\ vel' = IF collision
                                             THEN [ vel EXCEPT ![e1] = v[1], ![e2] = v[2] ]
                                             ELSE vel
                      ELSE IF tracked
                        THEN LET c == RectContact(e1, e2)
                                 p == PushApart(pos[e1], pos[e2], phys[e1], phys[e2], c)
                                 k == knockback_impulse(e1, e2)
                             IN  /\ ResolvePair(e1, e2, c.collision, {}, FALSE)
                                 /\ pos' = IF c.collision
                                             THEN [ pos EXCEPT ![e1] = p[1], ![e2] = p[2] ]
                                             ELSE pos
                                 /\ vel' = IF c.collision /\ KnockbackApplies(e1, e2)
                                             THEN Renormalized(
                                                    [ vel EXCEPT
                                                        ![e1] = Knocked(@, c, k, phys[e1].mass, -1),
                                                        ![e2] = Knocked(@, c, k, phys[e2].mass, 1) ],
                                                    e1, e2)
                                             ELSE IF c.collision
                                               THEN Renormalized(vel, e1, e2)
                                               ELSE vel
                        ELSE LET place(e) == IF e \in DOMAIN pos THEN pos[e] ELSE ItemPosition
                                 body(e) == IF e \in DOMAIN phys THEN phys[e] ELSE ItemPhysics
                                 \* the specifications that let a ball touch an
                                 \* item track its DesiredSpeed
                                 contacts == IF {e1, e2} \cap DOMAIN pos \cap DOMAIN desired = {}
                                               THEN {NoContact} ELSE ItemContacts
                             IN  \/ /\ ResolvePair(e1, e2, FALSE, {}, FALSE)
                                    /\ UNCHANGED << pos, vel >>
                                 \/ /\ \/ /\ Gate(e1, e2, ticks) # "hit"
                                          /\ ResolvePair(e1, e2, TRUE, {}, FALSE)
                                       \/ /\ Gate(e1, e2, ticks) = "hit"
                                          /\ \E icpt \in SUBSET ShieldsOf(body_ent),
                                                facing \in BOOLEAN :
                                               ResolvePair(e1, e2, TRUE, icpt, facing)
                                    /\ \E c \in contacts :
                                         LET p == PushApart(place(e1), place(e2),
                                                            body(e1), body(e2), c)
                                         IN  pos' = [ e \in DOMAIN pos |->
                                                        IF e = e1 THEN p[1]
                                                        ELSE IF e = e2 THEN p[2]
                                                        ELSE pos[e] ]
                                    /\ vel' = Renormalized(vel, e1, e2)
                   /\ hitAt' = [ e \in DOMAIN hitAt |->
                                   IF hp'[e] < hp[e] THEN ticks ELSE hitAt[e] ]
                   /\ IF NextPair(pairIdx, Len(ents)) = << >>
                        THEN pairIdx' = << 1, 2 >> /\ Done("BallCollisionSystem")
                        ELSE /\ pairIdx' = NextPair(pairIdx, Len(ents))
                             /\ UNCHANGED << pc, ran >>
    /\ UNCHANGED << frame, match_running, quit_game, winner, current_time, ticks, dt, entities,
                    dead, prot, mana, lastCast, effect, phys, sel, rot, orb, desired, spawn >>

\* mutant: an entity at exactly 0 hp is kept
HealthSweep_Strict(h) == h < 0

\* the test of the sweep: current_hp <= 0
HealthSweep(h) == h <= 0

\* mutant: the orbital items of a destroyed entity are left in the world
Cascade_Never(item, ent) == FALSE

\* the sweep deletes every orbital item whose parent_entity is the destroyed entity
Cascade(item, ent) == ItemData[item].parent_entity = ent

HealthSystem ==
    /\ Running("HealthSystem")
    /\ LET entities_to_destroy == { e \in entities : HasHealth(e) /\ HealthSweep(hp[e]) }
           cascade == { i \in entities : /\ HasOrbitalItem(i)
                                         /\ \E e \in entities_to_destroy : Cascade(i, e) }
       IN  /\ dead' = dead \cup cascade \cup entities_to_destroy
           /\ last' = [ kind |-> "sweep", destroyed |-> entities_to_destroy ]
    /\ Done("HealthSystem")
    /\ UNCHANGED << pairIdx, frame, match_running, quit_game, winner, current_time, ticks, dt,
                    entities, hp, prot, cdLast, mana, lastCast, effect, popups, hitAt >>
    /\ UNCHANGED << pos, vel, phys, sel, rot, orb, desired, spawn >>

\* angle += speed * dt; angle %= 360, in millidegrees (speed in degrees per
\* second, dt in ms)
Turned(angle, speed, d) == (angle + speed * d) % 360000

\* rot.angle += 180 * dt; rot.angle %= 360, for every Rotation of an entity
\* without OrbitalItem
RotationSystem ==
    /\ Running("RotationSystem")
    /\ Done("RotationSystem")
    /\ last' = NoEvent
    /\ rot' = [ e \in DOMAIN rot |->
                 IF e \in entities /\ ~HasOrbitalItem(e)
                   THEN Turned(rot[e], 180, dt) ELSE rot[e] ]
    /\ UNCHANGED << pairIdx, frame, match_running, quit_game, winner, current_time, ticks, dt,
                    entities, dead, hp, prot, cdLast, mana, lastCast, effect, popups,
                    hitAt >>
    /\ UNCHANGED << pos, vel, phys, sel, orb, desired, spawn >>

\* math.degrees(math.atan2(dy, dx)) in millidegrees, on the axes and the
\* diagonals, where it is exact
Atan2Deg(dy, dx) ==
    IF dy = 0 THEN (IF dx >= 0 THEN 0 ELSE 180000)
    ELSE IF dx = 0 THEN (IF dy > 0 THEN 90000 ELSE -90000)
    ELSE CHOOSE a \in {45000, 135000, -45000, -135000} :
           /\ dx * dx = dy * dy
           /\ (a > 0) = (dy > 0)
           /\ (a \in {45000, -45000}) = (dx > 0)

\* the item has a parent with a Position: it is not deleted by the Orbital system
Orbiting(i) ==
    /\ HasPosition(i) /\ HasOrbitalItem(i)
    /\ entity_exists(ItemData[i].parent_entity)
    /\ HasPosition(ItemData[i].parent_entity)

\* the first other entity with a Player of another player_id (the fallback,
\* an entity with Health, finds nothing else): the other ball, if in the world
Targets(i) == { e \in Balls \cap entities : e # ItemData[i].parent_entity }

\* facing_angle: from the parent's Position to the target's
facing_angle(i, target) ==
    Atan2Deg(pos[target].y - pos[ItemData[i].parent_entity].y,
             pos[target].x - pos[ItemData[i].parent_entity].x)

\* deletes an orbital item whose parent is gone; else advances OrbitalItem.angle,
\* writes Position (the place on the orbit, which the model does not carry) and
\* Rotation (facing the target, or the orbital angle when there is no target)
OrbitalSystem ==
    /\ Running("OrbitalSystem")
    /\ dead' = dead \cup { i \in entities :
                             /\ HasPosition(i) /\ HasOrbitalItem(i)
                             /\ ~( /\ entity_exists(ItemData[i].parent_entity)
                                   /\ HasPosition(ItemData[i].parent_entity) ) }
    /\ orb' = [ i \in DOMAIN orb |->
                 IF Orbiting(i) THEN Turned(orb[i], OrbitData[i].angular_speed, dt)
                                ELSE orb[i] ]
    /\ rot' = [ e \in DOMAIN rot |->
                 IF e \in DOMAIN orb /\ Orbiting(e)
                   THEN IF Targets(e) # {}
                          THEN facing_angle(e, CHOOSE t \in Targets(e) : TRUE)
                          ELSE Turned(orb[e], OrbitData[e].angular_speed, dt)
                   ELSE rot[e] ]
    /\ pos' = [ e \in { x \in DOMAIN pos : ~Orbiting(x) } |-> pos[e] ]
    /\ Done("OrbitalSystem")
    /\ last' = NoEvent
    /\ UNCHANGED << pairIdx, frame, match_running, quit_game, winner, current_time, ticks, dt,
                    entities, hp, prot, cdLast, mana, lastCast, effect, popups, hitAt >>
    /\ UNCHANGED << vel, phys, sel, desired, spawn >>

\* draws only
RenderSystem ==
    /\ Running("RenderSystem")
    /\ Done("RenderSystem")
    /\ last' = NoEvent
    /\ UNCHANGED << pairIdx, frame, match_running, quit_game, winner, current_time, ticks, dt,
                    entities, dead, hp, prot, cdLast, mana, lastCast, effect, popups,
                    hitAt >>
    /\ UNCHANGED << pos, vel, phys, sel, rot, orb, desired, spawn >>

\* draws; counts every DamagePopup down and deletes it when time_left <= 0
UISystem ==
    /\ Running("UISystem")
    /\ popups' = [ k \in DOMAIN popups |->
                     [ popups[k] EXCEPT !.time_left = @ - dt,
                                        !.dead = (popups[k].time_left - dt <= 0) ] ]
    /\ Done("UISystem")
    /\ last' = NoEvent
    /\ UNCHANGED << pairIdx, frame, match_running, quit_game, winner, current_time, ticks, dt,
                    entities, dead, hp, prot, cdLast, mana, lastCast, effect, hitAt >>
    /\ UNCHANGED << pos, vel, phys, sel, rot, orb, desired, spawn >>

\* mutant: the two players are exchanged
VictoryWinner_Swapped(alive1, alive2) ==
    IF alive1 /\ ~alive2 THEN 2
    ELSE IF alive2 /\ ~alive1 THEN 1
    ELSE 0

\* the winner, given that not both are alive
VictoryWinner(alive1, alive2) ==
    IF alive1 /\ ~alive2 THEN 1
    ELSE IF alive2 /\ ~alive1 THEN 2
    ELSE 0

\* run_game, after esper.process(dt): the victory condition
VictoryCheck ==
    /\ pc = Len(processors) + 1
    /\ pc' = 0
    /\ LET alive1 == entity_exists(id1)
           alive2 == entity_exists(id2)
       IN  IF ~alive1 \/ ~alive2
             THEN /\ winner' = VictoryWinner(alive1, alive2)
                  /\ match_running' = FALSE
             ELSE UNCHANGED << winner, match_running >>
    /\ last' = NoEvent
    /\ UNCHANGED << pairIdx, frame, quit_game, current_time, ticks, dt, entities, dead, hp,
                    prot, cdLast, mana, lastCast, effect, popups, ran, hitAt >>
    /\ UNCHANGED << pos, vel, phys, sel, rot, orb, desired, spawn >>

Next ==
    \/ \E k \in KeyEvents : frame \in CastFrames /\ Cast(k[1], k[2])
    \/ Tick
    \/ Quit
    \/ MovementSystem
    \/ WallCollisionSystem
    \/ SpawnProtectionSystem
    \/ ManaSystem
    \/ SkillSystem
    \/ BallCollisionSystem
    \/ HealthSystem
    \/ RotationSystem
    \/ OrbitalSystem
    \/ RenderSystem
    \/ UISystem
    \/ VictoryCheck

Spec == Init /\ [][Next]_vars

(***************************************************************************)
(* Specification SkillSpec: the same match, with the skill keys delivered  *)
(* in every frame and frames of dt = 0.                                    *)
(***************************************************************************)
\* BallCollisionSystem where only the Sword of ball 1 and ball 2 ever touch, with no
\* shield in between
SwordCollisionSystem ==
    /\ BallCollisionSystem
    /\ last'.kind = "pair" => last'.gate = "apart" \/ (last'.e1 = 3 /\ last'.e2 = id2)
    /\ last'.kind = "hit" => /\ last'.item = 3 /\ last'.body = id2
                             /\ last'.icpt = {} /\ ~last'.facing

SkillTick ==
    /\ pc = 0
    /\ match_running
    /\ frame < MaxFrames
    /\ \E d \in DtSkill : BeginFrame(d)
    /\ UNCHANGED << match_running, quit_game >>

SkillNext ==
    \/ \E k \in SkillKeyEvents : Cast(k[1], k[2])
    \/ SkillTick
    \/ MovementSystem
    \/ WallCollisionSystem
    \/ SpawnProtectionSystem
    \/ ManaSystem
    \/ SkillSystem
    \/ SwordCollisionSystem
    \/ HealthSystem
    \/ RotationSystem
    \/ OrbitalSystem
    \/ RenderSystem
    \/ UISystem
    \/ VictoryCheck

SkillSpec == Init /\ [][SkillNext]_vars

(***************************************************************************)
(* Specification SlotSpec: the match after player 2 has put one skill into *)
(* two slots, with the keys of both slots delivered in every frame.        *)
(***************************************************************************)
\* select_skills returned with Shield in slots 0 and 1 of player 2 (RETURN on
\* slot 0, DOWN, RETURN on slot 1, the highlight left on the first skill)
SelTwice == [ SelDone EXCEPT !.selected_p2[1] = skill_names[1] ]

\* the key events of specification SlotSpec: UP and DOWN of player 2
SlotKeyEvents == { <<id2, 0>>, <<id2, 1>> }

SlotInit ==
    /\ WorldInit
    /\ pos = [ e \in {} |-> 0 ]
    /\ vel = [ e \in {} |-> 0 ]
    /\ phys = [ e \in {} |-> 0 ]
    /\ rot = [ e \in {} |-> 0 ]
    /\ orb = [ e \in {} |-> 0 ]
    /\ desired = [ e \in {} |-> 0 ]
    /\ spawn = SpawnDone
    /\ sel = SelTwice

SlotNext ==
    \/ \E k \in SlotKeyEvents : Cast(k[1], k[2])
    \/ SkillTick
    \/ MovementSystem
    \/ WallCollisionSystem
    \/ SpawnProtectionSystem
    \/ ManaSystem
    \/ SkillSystem
    \/ SwordCollisionSystem
    \/ HealthSystem
    \/ RotationSystem
    \/ OrbitalSystem
    \/ RenderSystem
    \/ UISystem
    \/ VictoryCheck

SlotSpec == SlotInit /\ [][SlotNext]_vars

(***************************************************************************)
(* GeomSpec: the same frame with the geometry of the two balls tracked.    *)
(* The classes, spawn points and initial velocities are drawn from         *)
(* Placements; collisions with orbital items do not occur (their geometry  *)
(* is not tracked), and no key is pressed.                                  *)
(***************************************************************************)
\* CLASS_PRESETS: radius, mass (tenths) and restitution (thousandths)
CLASS_PRESETS ==
    [ Knight |-> [ radius |-> 40, mass |-> 40, restitution |-> 1000 ],
      Mage   |-> [ radius |-> 35, mass |-> 30, restitution |-> 1000 ] ]

\* frame times (ms) of GeomSpec
DtGeom == { 20, 60 }

Place(c1, x1, y1, vx1, vy1, c2, x2, y2, vx2, vy2) ==
    [ c1 |-> c1, x1 |-> x1, y1 |-> y1, vx1 |-> vx1, vy1 |-> vy1,
      c2 |-> c2, x2 |-> x2, y2 |-> y2, vx2 |-> vx2, vy2 |-> vy2 ]

\* what select_classes_and_spawns returns: classes, spawn points, velocities
Placements ==
    { Place("Knight", 350, 300, 600, 0, "Knight", 451, 300, -650, 0),
      Place("Knight", 400, 200, 0, 600, "Knight", 400, 300, 0, -600),
      Place("Mage", 400, 200, 300, 400, "Mage", 448, 264, -300, -400),
      Place("Knight", 340, 130, -450, -450, "Mage", 625, 415, 300, 400) }

GeomInit ==
    /\ WorldInit
    /\ sel = SelDone
    /\ rot = [ e \in {} |-> 0 ]
    /\ orb = [ e \in {} |-> 0 ]
    /\ desired = [ e \in {} |-> 0 ]
    /\ spawn = SpawnDone
    /\ \E g \in Placements :
         /\ pos = (id1 :> [ x |-> g.x1, y |-> g.y1, radius |-> CLASS_PRESETS[g.c1].radius ])
                  @@ (id2 :> [ x |-> g.x2, y |-> g.y2,
                               radius |-> CLASS_PRESETS[g.c2].radius ])
         /\ vel = (id1 :> [ vx |-> g.vx1, vy |-> g.vy1 ])
                  @@ (id2 :> [ vx |-> g.vx2, vy |-> g.vy2 ])
         /\ phys = (id1 :> [ mass |-> CLASS_PRESETS[g.c1].mass,
                             restitution |-> CLASS_PRESETS[g.c1].restitution ])
                   @@ (id2 :> [ mass |-> CLASS_PRESETS[g.c2].mass,
                                restitution |-> CLASS_PRESETS[g.c2].restitution ])

GeomTick ==
    /\ pc = 0
    /\ match_running
    /\ frame < MaxFrames
    /\ \E d \in DtGeom : BeginFrame(d)
    /\ UNCHANGED << match_running, quit_game >>

\* the Collision engine when only the two balls can touch
BodyCollisionSystem ==
    /\ BallCollisionSystem
    /\ last'.kind = "pair"
    /\ last'.gate = "apart" \/ (last'.e1 = id1 /\ last'.e2 = id2)

GeomNext ==
    \/ GeomTick
    \/ MovementSystem
    \/ WallCollisionSystem
    \/ SpawnProtectionSystem
    \/ ManaSystem
    \/ SkillSystem
    \/ BodyCollisionSystem
    \/ HealthSystem
    \/ RotationSystem
    \/ OrbitalSystem
    \/ RenderSystem
    \/ UISystem
    \/ VictoryCheck

GeomSpec == GeomInit /\ [][GeomNext]_vars

(***************************************************************************)
(* OrbitSpec: the same frame with the geometry of the balls, the angles of *)
(* every Rotation and OrbitalItem, and the orbital items at the Position   *)
(* that create_orbital_item gives them tracked.  The balls start on one    *)
(* line parallel to an axis and move along it.  The Orbital system puts an *)
(* item on its orbit at the end of the first frame; from there on its      *)
(* Position is not carried and it meets nothing.                           *)
(***************************************************************************)
\* frame times (ms) of OrbitSpec
DtOrbit == { 20, 80 }

\* what select_classes_and_spawns returns: classes, spawn points, velocities
OrbitPlacements ==
    { Place("Knight", 352, 300, 600, 0, "Knight", 448, 300, -600, 0),
      Place("Knight", 400, 352, 0, -600, "Knight", 400, 208, 0, 600) }

OrbitInit ==
    /\ WorldInit
    /\ sel = SelDone
    /\ \E g \in OrbitPlacements :
         /\ pos = [ e \in Balls \cup Items |->
                      IF e = id1
                        THEN [ x |-> g.x1, y |-> g.y1, radius |-> CLASS_PRESETS[g.c1].radius ]
                      ELSE IF e = id2
                        THEN [ x |-> g.x2, y |-> g.y2, radius |-> CLASS_PRESETS[g.c2].radius ]
                      ELSE ItemPosition ]
         /\ vel = (id1 :> [ vx |-> g.vx1, vy |-> g.vy1 ])
                  @@ (id2 :> [ vx |-> g.vx2, vy |-> g.vy2 ])
         /\ phys = [ e \in Balls \cup Items |->
                       IF e = id1
                         THEN [ mass |-> CLASS_PRESETS[g.c1].mass,
                                restitution |-> CLASS_PRESETS[g.c1].restitution ]
                       ELSE IF e = id2
                         THEN [ mass |-> CLASS_PRESETS[g.c2].mass,
                                restitution |-> CLASS_PRESETS[g.c2].restitution ]
                       ELSE ItemPhysics ]
    /\ rot = [ e \in Balls \cup Items |-> IF e \in Items THEN OrbitData[e].angle ELSE 0 ]
    /\ orb = [ e \in Items |-> OrbitData[e].angle ]
    /\ desired = [ e \in {} |-> 0 ]
    /\ spawn = SpawnDone

OrbitTick ==
    /\ pc = 0
    /\ match_running
    /\ frame < MaxFrames
    /\ \E d \in DtOrbit : BeginFrame(d)
    /\ UNCHANGED << match_running, quit_game >>

\* the Collision engine when an item on its orbit meets nothing
TrackedCollisionSystem ==
    /\ BallCollisionSystem
    /\ last'.kind = "pair" => last'.gate = "apart" \/ {last'.e1, last'.e2} \subseteq DOMAIN pos

OrbitNext ==
    \/ OrbitTick
    \/ MovementSystem
    \/ WallCollisionSystem
    \/ SpawnProtectionSystem
    \/ ManaSystem
    \/ SkillSystem
    \/ TrackedCollisionSystem
    \/ HealthSystem
    \/ RotationSystem
    \/ OrbitalSystem
    \/ RenderSystem
    \/ UISystem
    \/ VictoryCheck

OrbitSpec == OrbitInit /\ [][OrbitNext]_vars

(***************************************************************************)
(* WallSpec: the frame of GeomSpec for two Knights spawned against a wall. *)
(* The spawn loop keeps a cursor one pixel inside the arena, so the first  *)
(* ball starts with its centre on the line x = ARENA_X + 1 (or             *)
(* y = ARENA_Y + 1) and the second 96 pixels further in: 16 cursor steps.  *)
(* Both move at 650 pixels per second, the second away from the wall, the  *)
(* first towards it or away from it.                                       *)
(***************************************************************************)
\* what select_classes_and_spawns returns: classes, spawn points, velocities
WallPlacements ==
    { Place("Knight", 293, 269, -250, 600, "Knight", 389, 269, 250, 600),
      Place("Knight", 293, 269, 250, 600, "Knight", 389, 269, 250, 600),
      Place("Knight", 389, 83, 600, -250, "Knight", 389, 179, 600, 250) }

WallInit ==
    /\ WorldInit
    /\ sel = SelDone
    /\ rot = [ e \in {} |-> 0 ]
    /\ orb = [ e \in {} |-> 0 ]
    /\ desired = [ e \in {} |-> 0 ]
    /\ \E g \in WallPlacements :
         /\ spawn = SpawnReturned(g.c1, g.x1, g.y1, g.c2, g.x2, g.y2)
         /\ pos = (id1 :> [ x |-> g.x1, y |-> g.y1, radius |-> CLASS_PRESETS[g.c1].radius ])
                  @@ (id2 :> [ x |-> g.x2, y |-> g.y2,
                               radius |-> CLASS_PRESETS[g.c2].radius ])
         /\ vel = (id1 :> [ vx |-> g.vx1, vy |-> g.vy1 ])
                  @@ (id2 :> [ vx |-> g.vx2, vy |-> g.vy2 ])
         /\ phys = (id1 :> [ mass |-> CLASS_PRESETS[g.c1].mass,
                             restitution |-> CLASS_PRESETS[g.c1].restitution ])
                   @@ (id2 :> [ mass |-> CLASS_PRESETS[g.c2].mass,
                                restitution |-> CLASS_PRESETS[g.c2].restitution ])

WallSpec == WallInit /\ [][GeomNext]_vars

\* ---------------------------------------------------------------------------
\* TouchSpec: the frame loop with the Position, Velocity, Physics and
\* DesiredSpeed of two Mages that meet head-on at different speeds, and with
\* contacts of the balls with the other player's items (ItemContacts)
\* ---------------------------------------------------------------------------

\* what select_classes_and_spawns returns: classes, spawn points, velocities
TouchPlacements ==
    { Place("Mage", 353, 269, 500, 0, "Mage", 438, 269, -550, 0),
      Place("Mage", 353, 269, 0, 500, "Mage", 353, 354, 0, -550) }

\* create_ball: DesiredSpeed(math.hypot(vx, vy))
DesiredSpeed(vx, vy) == Sqrt(vx * vx + vy * vy)

TouchInit ==
    /\ WorldInit
    /\ sel = SelDone
    /\ rot = [ e \in {} |-> 0 ]
    /\ orb = [ e \in {} |-> 0 ]
    /\ \E g \in TouchPlacements :
         /\ spawn = SpawnReturned(g.c1, g.x1, g.y1, g.c2, g.x2, g.y2)
         /\ pos = (id1 :> [ x |-> g.x1, y |-> g.y1, radius |-> CLASS_PRESETS[g.c1].radius ])
                  @@ (id2 :> [ x |-> g.x2, y |-> g.y2,
                               radius |-> CLASS_PRESETS[g.c2].radius ])
         /\ vel = (id1 :> [ vx |-> g.vx1, vy |-> g.vy1 ])
                  @@ (id2 :> [ vx |-> g.vx2, vy |-> g.vy2 ])
         /\ desired = (id1 :> DesiredSpeed(g.vx1, g.vy1))
                      @@ (id2 :> DesiredSpeed(g.vx2, g.vy2))
         /\ phys = (id1 :> [ mass |-> CLASS_PRESETS[g.c1].mass,
                             restitution |-> CLASS_PRESETS[g.c1].restitution ])
                   @@ (id2 :> [ mass |-> CLASS_PRESETS[g.c2].mass,
                                restitution |-> CLASS_PRESETS[g.c2].restitution ])

\* the pairs that touch in TouchSpec: the two balls, the Sword (3) and the
\* second ball, the first ball and the Shield (5)
TouchCollisionSystem ==
    /\ BallCollisionSystem
    /\ last'.kind = "pair"
         => \/ last'.gate = "apart"
            \/ << last'.e1, last'.e2 >> \in { << id1, id2 >>, << 3, id2 >>, << id1, 5 >> }
    /\ last'.kind = "hit" => /\ << last'.e1, last'.e2 >> \in { << 3, id2 >>, << id1, 5 >> }
                             /\ last'.icpt = {} /\ ~last'.facing

TouchNext ==
    \/ GeomTick
    \/ MovementSystem
    \/ WallCollisionSystem
    \/ SpawnProtectionSystem
    \/ ManaSystem
    \/ SkillSystem
    \/ TouchCollisionSystem
    \/ HealthSystem
    \/ RotationSystem
    \/ OrbitalSystem
    \/ RenderSystem
    \/ UISystem
    \/ VictoryCheck

TouchSpec == TouchInit /\ [][TouchNext]_vars

(***************************************************************************)
(* SpawnSpec: the spawn loop of select_classes_and_spawns, before the      *)
(* match.  One step is one pass of the loop: the KEYDOWN events of the     *)
(* batch in order, then the held keys move the cursors of the players who  *)
(* have not confirmed, then the clamp, then the test that ends the loop.   *)
(* Player 1 holds D or nothing, player 2 holds UP or nothing.              *)
(***************************************************************************)
\* mutant: a confirmation is never refused
Overlapping_Never(s) == FALSE

\* dx*dx + dy*dy < (min_dist * min_dist), the cursors in quarter pixels
Overlapping(s) ==
    LET dx == s.cursor_p2[1] - s.cursor_p1[1]
        dy == s.cursor_p2[2] - s.cursor_p1[2]
        min_dist == 4 * (CLASS_PRESETS[s.chosen_p1].radius
                           + CLASS_PRESETS[s.chosen_p2].radius)
    IN  dx * dx + dy * dy < min_dist * min_dist

\* the KEYDOWN event is a confirmation that the loop refuses
Refused(s, key) ==
    \/ key = "K_e" /\ ~s.spawn_confirmed_p1 /\ s.spawn_confirmed_p2 /\ Overlapping(s)
    \/ key = "K_RETURN" /\ ~s.spawn_confirmed_p2 /\ s.spawn_confirmed_p1 /\ Overlapping(s)

\* one KEYDOWN event: E confirms player 1, RETURN confirms player 2; the second
\* confirmation is refused while the circles overlap
SpawnKey(s, key) ==
    IF key = "K_e" /\ ~s.spawn_confirmed_p1
      THEN IF s.spawn_confirmed_p2 /\ Overlapping(s)
             THEN s ELSE [ s EXCEPT !.spawn_confirmed_p1 = TRUE ]
    ELSE IF key = "K_RETURN" /\ ~s.spawn_confirmed_p2
      THEN IF s.spawn_confirmed_p1 /\ Overlapping(s)
             THEN s ELSE [ s EXCEPT !.spawn_confirmed_p2 = TRUE ]
    ELSE s

\* for event in pygame.event.get(), on a batch of at most two KEYDOWN events
SpawnEvents(s, events) ==
    IF Len(events) = 0 THEN s
    ELSE IF Len(events) = 1 THEN SpawnKey(s, events[1])
    ELSE SpawnKey(SpawnKey(s, events[1]), events[2])

\* the held keys move a cursor by move_speed on each axis
CursorMoved(c, keys, l, r, u, d) ==
    << c[1] - (IF l \in keys THEN move_speed ELSE 0) + (IF r \in keys THEN move_speed ELSE 0),
       c[2] - (IF u \in keys THEN move_speed ELSE 0) + (IF d \in keys THEN move_speed ELSE 0) >>

\* keep cursors inside the arena rectangle
Clamped(c) ==
    << Max(4 * (ARENA_X + 1), Min(4 * (ARENA_X + ARENA_SIZE - 1), c[1])),
       Max(4 * (ARENA_Y + 1), Min(4 * (ARENA_Y + ARENA_SIZE - 1), c[2])) >>

\* the batches of KEYDOWN events and the sets of held keys
SpawnBatches ==
    { << >>, << "K_e" >>, << "K_RETURN" >>, << "K_e", "K_RETURN" >>, << "K_RETURN", "K_e" >> }

SpawnHeld == SUBSET { "K_d", "K_UP" }

\* the classes confirmed in the class menu
SpawnClasses == { "Knight", "Mage" }

SpawnInit ==
    /\ WorldInit
    /\ pos = [ e \in {} |-> 0 ]
    /\ vel = [ e \in {} |-> 0 ]
    /\ phys = [ e \in {} |-> 0 ]
    /\ rot = [ e \in {} |-> 0 ]
    /\ orb = [ e \in {} |-> 0 ]
    /\ desired = [ e \in {} |-> 0 ]
    /\ sel = SelStart
    /\ \E c1, c2 \in SpawnClasses : spawn = SpawnStart(c1, c2)

\* one pass of the loop without ESC, QUIT or a click on the back button
SpawnFrame(events, keys) ==
    /\ spawn.result = "selecting"
    /\ LET s1 == SpawnEvents(spawn, events)
           s2 == [ s1 EXCEPT
                     !.cursor_p1 = IF s1.spawn_confirmed_p1 THEN @
                                   ELSE CursorMoved(@, keys, "K_a", "K_d", "K_w", "K_s"),
                     !.cursor_p2 = IF s1.spawn_confirmed_p2 THEN @
                                   ELSE CursorMoved(@, keys, "K_LEFT", "K_RIGHT",
                                                    "K_UP", "K_DOWN") ]
           s3 == [ s2 EXCEPT !.cursor_p1 = Clamped(@), !.cursor_p2 = Clamped(@) ]
       IN  /\ spawn' = [ s3 EXCEPT
                           !.result = IF s3.spawn_confirmed_p1 /\ s3.spawn_confirmed_p2
                                        THEN "returned" ELSE @ ]
           /\ last' = [ kind |-> "spawn",
                        refused |-> \/ last.kind = "spawn" /\ last.refused
                                    \/ Len(events) >= 1 /\ Refused(spawn, events[1])
                                    \/ /\ Len(events) = 2
                                       /\ Refused(SpawnKey(spawn, events[1]), events[2]) ]
    /\ UNCHANGED << pc, pairIdx, frame, match_running, quit_game, winner, current_time, ticks,
                    dt, entities, dead, hp, prot, cdLast, mana, lastCast, effect, popups,
                    ran, hitAt, pos, vel, phys, sel, rot, orb, desired >>

\* QUIT, ESC or a click on the back button
SpawnBack ==
    /\ spawn.result = "selecting"
    /\ spawn' = [ spawn EXCEPT !.result = "back" ]
    /\ UNCHANGED << pc, pairIdx, frame, match_running, quit_game, winner, current_time, ticks,
                    dt, entities, dead, hp, prot, cdLast, mana, lastCast, effect, popups,
                    ran, last, hitAt, pos, vel, phys, sel, rot, orb, desired >>

SpawnNext ==
    \/ \E events \in SpawnBatches, keys \in SpawnHeld : SpawnFrame(events, keys)
    \/ SpawnBack

SpawnSpec == SpawnInit /\ [][SpawnNext]_vars

(***************************************************************************)
(* SelectSpec: the event loop of select_skills, before the match.  The     *)
(* keys pressed are those of SelectKeys; player 1 moves the highlight      *)
(* between the first two skills.                                           *)
(***************************************************************************)
\* the variables of the match
world == << pc, pairIdx, frame, match_running, quit_game, winner, current_time, ticks, dt,
            entities, dead, hp, prot, cdLast, mana, lastCast, effect, popups,
            ran, last, hitAt, pos, vel, phys, rot, orb, desired, spawn >>

SelectInit ==
    /\ WorldInit
    /\ pos = [ e \in {} |-> 0 ]
    /\ vel = [ e \in {} |-> 0 ]
    /\ phys = [ e \in {} |-> 0 ]
    /\ rot = [ e \in {} |-> 0 ]
    /\ orb = [ e \in {} |-> 0 ]
    /\ desired = [ e \in {} |-> 0 ]
    /\ spawn = SpawnDone
    /\ sel = SelStart

\* the keys of the KEYDOWN events
SelectKeys == { "K_w", "K_s", "K_a", "K_d", "K_e", "K_RETURN", "K_DOWN" }

\* one KEYDOWN event other than ESC: both players' controls see it; over
\* tells whether the mouse is over player 1's PRONTO button
KeyDown(key, over) ==
    /\ sel.result = "selecting"
    /\ sel' = P2Key(P1Key(sel, key, over), key)
    /\ UNCHANGED world

\* one MOUSEBUTTONDOWN event on a PRONTO button
ClickPronto(player) ==
    /\ sel.result = "selecting"
    /\ sel' = PressPronto(sel, player)
    /\ UNCHANGED world

\* QUIT, ESC or a click on the back button
Back ==
    /\ sel.result = "selecting"
    /\ sel' = [ sel EXCEPT !.result = "back" ]
    /\ UNCHANGED world

\* the end of the loop once both players are done, and the conversion
Return ==
    /\ sel.result = "selecting"
    /\ sel.done_p1 /\ sel.done_p2
    /\ sel' = [ sel EXCEPT !.result = Converted(sel) ]
    /\ UNCHANGED world

SelectNext ==
    \/ \E key \in SelectKeys, over \in BOOLEAN :
         /\ key = "K_d" => sel.highlight_p1 = 0
         /\ key = "K_a" => sel.highlight_p1 = 1
         /\ KeyDown(key, over)
    \/ \E player \in {1, 2} : ClickPronto(player)
    \/ Back
    \/ Return

SelectSpec == SelectInit /\ [][SelectNext]_vars

(***************************************************************************)
(* LiveSpec: the match loop under fairness.  run_game's loop is sequential *)
(* and never blocks: clock.tick() returns, esper.process() runs the        *)
(* processors in order, and the victory check follows; so whatever step is *)
(* enabled is eventually taken.  Every frame has dt > 0; the collisions    *)
(* are those of SkillSpec.                                                 *)
(***************************************************************************)
\* frame times (ms) of LiveSpec
DtLive == {200, 400}

LiveTick ==
    /\ pc = 0
    /\ match_running
    /\ frame < MaxFrames
    /\ \E d \in DtLive : BeginFrame(d)
    /\ UNCHANGED << match_running, quit_game >>

LiveQuit ==
    /\ pc = 0
    /\ match_running
    /\ frame < MaxFrames
    /\ match_running' = FALSE
    /\ quit_game' = TRUE
    /\ \E d \in DtLive : BeginFrame(d)

LiveNext ==
    \/ LiveTick
    \/ LiveQuit
    \/ MovementSystem
    \/ WallCollisionSystem
    \/ SpawnProtectionSystem
    \/ ManaSystem
    \/ SkillSystem
    \/ SwordCollisionSystem
    \/ HealthSystem
    \/ RotationSystem
    \/ OrbitalSystem
    \/ RenderSystem
    \/ UISystem
    \/ VictoryCheck

LiveSpec == Init /\ [][LiveNext]_vars /\ WF_vars(LiveNext)

(***************************************************************************)
(* Properties.                                                             *)
(***************************************************************************)
Range(f) == { f[x] : x \in DOMAIN f }

\* esper.process(dt) has returned and the next frame has not begun
FrameComplete == frame > 0 /\ (pc = 0 \/ pc = Len(processors) + 1)

\* a step of the Collision engine, and the pair it resolves
CollisionStep == Running("BallCollisionSystem") /\ Len(collidable_entities) >= 2
CurE1 == collidable_entities[pairIdx[1]]
CurE2 == collidable_entities[pairIdx[2]]
CurIsItemBody == (CurE1 \in Items) # (CurE2 \in Items)
CurItem == IF CurE1 \in Items THEN CurE1 ELSE CurE2
CurBody == IF CurE1 \in Items THEN CurE2 ELSE CurE1
CurOwner == ItemData[CurItem].parent_entity

\* the step that ends processor name
Completes(name) == ran' = Append(ran, name)

SimulationOrder ==
    << "MovementSystem", "WallCollisionSystem", "SpawnProtectionSystem", "ManaSystem",
       "SkillSystem", "BallCollisionSystem", "HealthSystem", "OrbitalSystem" >>

Presentation == { "RenderSystem", "UISystem" }

\* C1: every frame runs Movement, Boundary, SpawnProtection, Mana, Skill-effect,
\* Collision, Mortality and Orbital exactly once and in this order, then the
\* presentation; the Mortality sweep of a frame runs after that frame's Collision
\* engine and destroys every entity the engine left at hp <= 0, and Orbital never
\* runs before the frame's Mortality sweep.
C1_FrameOrder ==
    /\ [](FrameComplete =>
            /\ SelectSeq(ran, LAMBDA n : n \in Range(SimulationOrder)) = SimulationOrder
            /\ \A i, j \in DOMAIN ran :
                 ran[i] \in Presentation /\ ran[j] \in Range(SimulationOrder) => j < i
            /\ \E i \in DOMAIN ran : ran[i] \in Presentation)
    /\ [][ /\ Completes("HealthSystem") =>
                /\ "BallCollisionSystem" \in Range(ran)
                /\ \A e \in Balls : e \in entities /\ hp[e] <= 0 => e \in dead'
           /\ Completes("OrbitalSystem") => "HealthSystem" \in Range(ran)
           /\ CollisionStep => "HealthSystem" \notin Range(ran) ]_vars

\* a frame is complete in which the Collision engine took an entity to hp <= 0 and
\* the sweep of the same frame destroyed it
C1_Witness ==
    /\ FrameComplete
    /\ \E e \in Balls : hitAt[e] = ticks /\ hp[e] <= 0 /\ e \in dead

\* C2: a step of the Collision engine on two bodies or on two items changes no
\* current_hp, also when the two items have different owners.
C2_NoDamageBodyBodyItemItem ==
    [][ CollisionStep /\ ~CurIsItemBody => hp' = hp ]_vars

\* two colliding items of different owners, one of them with damage > 0, were resolved
C2_Witness ==
    /\ last.kind = "pair" /\ last.gate = "item_item"
    /\ last.e1 = 3 /\ last.e2 = 6
    /\ ~HasSpawnProtection(id1) /\ ticks - cdLast[id1] >= CooldownTime

\* C3: the collision of an item with the body that is its parent_entity changes no
\* current_hp: neither the item's damage nor the body's passive damage is applied.
C3_NoSelfDamage ==
    [][ CollisionStep /\ CurIsItemBody /\ CurOwner = CurBody => hp' = hp ]_vars

\* an item with damage > 0 collided with its own parent while no gate was closed
C3_Witness ==
    /\ last.kind = "pair" /\ last.gate = "self"
    /\ last.e1 = id1 /\ last.e2 = 3
    /\ ~HasSpawnProtection(id1) /\ ticks - cdLast[id1] >= CooldownTime

\* C4: no step of the Collision engine changes the current_hp of an entity that
\* carries SpawnProtection (whose remaining time is > 0).
C4_ProtectedTakesNoDamage ==
    /\ [](\A e \in DOMAIN prot : prot[e] > 0)
    /\ [][ CollisionStep => \A e \in DOMAIN prot : hp'[e] = hp[e] ]_vars

\* the item Guard (damage 4) of ball 2 collided with the protected ball 1
C4_Witness ==
    /\ last.kind = "pair" /\ last.gate = "protected"
    /\ last.e1 = id1 /\ last.e2 = 6
    /\ id1 \in DOMAIN prot

\* C5: when the owner of the colliding item carries SpawnProtection the collision
\* changes no current_hp; when the body carries it, the owner of the item loses no hp.
C5_ProtectedDealsNoDamage ==
    [][ CollisionStep /\ CurIsItemBody /\ CurOwner # CurBody =>
          /\ CurOwner \in DOMAIN prot => hp' = hp
          /\ CurBody \in DOMAIN prot => hp'[CurOwner] = hp[CurOwner] ]_vars

\* the Sword of the protected ball 1 collided with ball 2
C5_Witness ==
    /\ last.kind = "pair" /\ last.gate = "protected"
    /\ last.e1 = 3 /\ last.e2 = id2
    /\ id1 \in DOMAIN prot

\* C6: when the Collision engine reduces the hp of an entity, the previous reduction
\* it applied to that entity lies at least cooldown_time back on the damage clock.
C6_ReductionsCooldownApart ==
    [][ CollisionStep =>
          \A e \in Balls :
             hp'[e] < hp[e] => hitAt[e] = Never \/ ticks - hitAt[e] >= CooldownTime ]_vars

\* an item-body collision was vetoed by a cooldown in a frame after the one of the
\* last reduction, less than cooldown_time later
C6_Witness ==
    /\ last.kind = "pair" /\ last.gate = "cooldown"
    /\ \E e \in {last.e1, last.e2} \cap Balls :
         /\ hitAt[e] # Never
         /\ 0 < ticks - hitAt[e] /\ ticks - hitAt[e] < CooldownTime

\* C7: an item-body collision changes no current_hp when the cooldown of the item's
\* owner has not elapsed, and none when the cooldown of the body has not elapsed.
C7_CooldownsVetoIndependently ==
    [][ CollisionStep /\ CurIsItemBody /\ CurOwner # CurBody =>
          /\ ticks - cdLast[CurOwner] < CooldownTime => hp' = hp
          /\ ticks - cdLast[CurBody] < CooldownTime => hp' = hp ]_vars

\* Guard (damage 4) of ball 2 collided with ball 1 while the cooldown of ball 1, the
\* body, had elapsed and the cooldown of ball 2, the owner, had not
C7_Witness ==
    /\ last.kind = "pair" /\ last.gate = "cooldown"
    /\ last.e1 = id1 /\ last.e2 = 6
    /\ ~HasSpawnProtection(id1)
    /\ ticks - cdLast[id1] >= CooldownTime
    /\ ticks - cdLast[id2] < CooldownTime

\* the maximum damage_reduction among the shields of icpt, 0 if there is none
MaxReduction(icpt) ==
    IF icpt = {} THEN 0
    ELSE CHOOSE m \in { ItemData[x].damage_reduction : x \in icpt } :
           \A x \in icpt : ItemData[x].damage_reduction <= m

\* the value of the active damage_reduction skill of e, in hundredths, 0 if none
ActiveReduction(e) ==
    IF e \in DOMAIN effect /\ effect[e].effect_type = "damage_reduction"
       /\ effect[e].time_remaining > 0
      THEN effect[e].effect_value ELSE 0

\* C8: an item-body hit that passes all gates takes round(D * (1 - s) * (1 - k)),
\* floored at 0, from the body's hp: D the boosted item damage, s the maximum
\* damage_reduction among the body's intercepting shields, k the body's active
\* damage_reduction skill value; D = 10, s = 0.4, k = 0 gives 6.
C8_ShieldedDamage ==
    /\ [](~HasSkillEffect(id2) => FinalDamage(10, {6}, id2) = 6)
    /\ [][ CollisionStep /\ last'.kind = "hit" /\ last'.body_hit =>
             hp'[last'.body] = hp[last'.body]
                - Max(0, PyRound(last'.damage_to_body
                                   * (100 - MaxReduction(last'.icpt))
                                   * (100 - ActiveReduction(last'.body)), 10000)) ]_vars

\* the boosted Sword hit ball 2 while both shields of ball 2 intercepted and the
\* damage_reduction skill of ball 2 was active
C8_Witness ==
    /\ last.kind = "hit" /\ last.body_hit
    /\ last.item = 3 /\ last.body = id2
    /\ last.icpt = {5, 6}
    /\ last.damage_to_body = 8
    /\ ActiveReduction(id2) = 50
    /\ last.final_damage = 2
    /\ hp[id2] = BallData[id2].max_hp - 2

\* C9: the Mortality sweep destroys every entity with current_hp <= 0 and, in the
\* same sweep, every orbital item whose parent_entity it is; it destroys no orbital
\* item whose parent survives.
C9_MortalityCascade ==
    [][ Completes("HealthSystem") =>
          /\ \A e \in Balls : e \in entities /\ hp[e] <= 0 =>
               /\ e \in dead'
               /\ \A i \in Items : ItemData[i].parent_entity = e => i \in dead'
          /\ \A i \in Items : i \in dead' /\ i \notin dead =>
               ItemData[i].parent_entity \in dead' ]_vars

\* the sweep destroyed ball 2 and its two items and left ball 1 and its item
C9_Witness ==
    /\ last.kind = "sweep" /\ last.destroyed = {id2}
    /\ {id2, 5, 6} \subseteq dead
    /\ id1 \notin dead /\ 3 \notin dead

\* C10: when a frame is complete no existing entity has current_hp <= 0.
C10_NoDeadSurvivor ==
    FrameComplete => \A e \in Balls : entity_exists(e) => hp[e] > 0

\* a frame is complete in which an entity fell to exactly 0 hp and no longer exists
C10_Witness ==
    /\ FrameComplete
    /\ \E e \in Balls : hp[e] = 0 /\ hitAt[e] = ticks /\ ~entity_exists(e)

\* C11: when a frame is complete, the parent_entity of every existing orbital item
\* is an existing entity: an item whose parent was removed in the frame was removed
\* in the same frame.
C11_OrbitalParentExists ==
    FrameComplete =>
      \A i \in Items :
         i \in entities /\ i \notin dead =>
           /\ ItemData[i].parent_entity \in entities
           /\ ItemData[i].parent_entity \notin dead

\* a frame is complete in which ball 2 was removed, and its two items with it, while
\* ball 1 and its item remain
C11_Witness ==
    /\ FrameComplete /\ pc = 0
    /\ id2 \in dead /\ 5 \in dead /\ 6 \in dead
    /\ entity_exists(id1) /\ entity_exists(3)

BothExist == entity_exists(id1) /\ entity_exists(id2)

\* C12: the victory check after a frame lets the match loop continue exactly while
\* both combatants exist; when it ends the match the winner is 1 if only ball 1
\* exists, 2 if only ball 2 exists and 0 if neither does, so no player is the winner
\* while their own entity is removed or the opponent's exists.
C12_VictoryCheck ==
    /\ [][ pc = Len(processors) + 1 =>
             /\ match_running' = (match_running /\ BothExist)
             /\ BothExist => winner' = winner
             /\ ~BothExist =>
                  /\ (winner' = 1) = (entity_exists(id1) /\ ~entity_exists(id2))
                  /\ (winner' = 2) = (entity_exists(id2) /\ ~entity_exists(id1))
                  /\ (winner' = 0) = (~entity_exists(id1) /\ ~entity_exists(id2)) ]_vars
    /\ [](/\ pc = 0 /\ ~quit_game => (match_running = BothExist)
          /\ winner = 1 => entity_exists(id1) /\ ~entity_exists(id2)
          /\ winner = 2 => entity_exists(id2) /\ ~entity_exists(id1)
          /\ winner = 0 => ~entity_exists(id1) /\ ~entity_exists(id2)
          /\ winner = NoWinner => BothExist \/ pc # 0)

\* the match ended after a frame in which ball 1 was removed and ball 2 was not
C12_Witness ==
    /\ pc = 0 /\ frame > 0 /\ ~match_running /\ ~quit_game
    /\ winner = 2
    /\ ~entity_exists(id1) /\ entity_exists(id2)

\* a step of the event loop that handles a skill key
CastStep == pc = 0 /\ pc' = 0

\* the three conditions of a cast of slot k[2] by ball k[1], as the claim states them
CastValid(k) ==
    /\ k[2] \in 0..3
    /\ mana[k[1]] >= SkillSlots[k[1]][k[2]].mana_cost
    /\ \/ lastCast[k[1]][k[2]] = Never
       \/ current_time - lastCast[k[1]][k[2]] >= SkillSlots[k[1]][k[2]].cooldown

\* what a successful cast of slot k[2] by ball k[1] does
CastDone(k) ==
    /\ mana'[k[1]] = mana[k[1]] - SkillSlots[k[1]][k[2]].mana_cost
    /\ lastCast'[k[1]][k[2]] = current_time
    /\ k[1] \in DOMAIN effect'
    /\ effect'[k[1]] =
         [ effect_type |-> SkillSlots[k[1]][k[2]].effect_type,
           effect_value |-> SkillSlots[k[1]][k[2]].effect_value,
           time_remaining |-> SkillSlots[k[1]][k[2]].effect_duration ]

\* C13: a cast succeeds exactly when the slot holds a skill, mana >= cost and
\* now - last_cast_time >= cooldown (a slot never cast is never blocked); a cast
\* that succeeds lowers mana by the cost, stamps the slot with now and attaches a
\* SkillEffect with the skill's type, value and duration.
C13_CastSucceedsExactlyWhenValid ==
    /\ [][ CastStep /\ << mana, lastCast, effect >>' # << mana, lastCast, effect >> =>
             \E k \in SkillKeyEvents : CastValid(k) /\ CastDone(k) ]_vars
    /\ [](pc = 0 /\ match_running =>
            \A k \in SkillKeyEvents :
               CastValid(k) => ENABLED (Cast(k[1], k[2]) /\ CastDone(k)))

\* ball 2 cast Shield a second time, exactly cooldown after the first cast
C13_Witness ==
    /\ last.kind = "cast" /\ last.e = id2 /\ last.slot = 0
    /\ current_time = SKILLS_PRESETS.Shield.cooldown
    /\ lastCast[id2][0] = current_time
    /\ mana[id2] = 4500
    /\ id2 \in DOMAIN effect /\ effect[id2].time_remaining = 2000

\* the skill state of ball e: mana, the stamps of its slots, its SkillEffect
SkillState(e) ==
    << mana[e], lastCast[e], IF e \in DOMAIN effect THEN effect[e] ELSE NoEvent >>

NoValidKey(e) == \A k \in SkillKeyEvents : k[1] = e => ~CastValid(k)

\* C14: a cast that fails validation changes nothing: the caster's mana, the
\* last_cast_time of every slot and the caster's SkillEffect stay as they are; and a
\* cast never touches the state of the other player.
C14_FailedCastChangesNothing ==
    [][ CastStep =>
          /\ \A e \in Balls : NoValidKey(e) => SkillState(e)' = SkillState(e)
          /\ last'.kind = "nocast" => << mana, lastCast, effect >>' = << mana, lastCast, effect >>
          /\ last'.kind = "cast" =>
               \A e \in Balls \ {last'.e} : SkillState(e)' = SkillState(e)
          /\ UNCHANGED << hp, prot, cdLast, entities, dead, popups, current_time >> ]_vars

\* ball 2 pressed the Shield key with the cooldown of the slot elapsed and its mana
\* below the cost, while it carries the effect of an earlier cast
C14_Witness ==
    /\ last.kind = "nocast" /\ last.e = id2 /\ last.slot = 0
    /\ lastCast[id2][0] # Never
    /\ current_time - lastCast[id2][0] >= SKILLS_PRESETS.Shield.cooldown
    /\ mana[id2] < SKILLS_PRESETS.Shield.mana_cost
    /\ id2 \in DOMAIN effect

\* C15: in every state each current_mana is within 0..max_mana, whatever the
\* interleaving of casts and frames; the regeneration step sets it to
\* min(max_mana, current_mana + regen_rate * dt).
C15_ManaWithinBounds ==
    /\ [](\A e \in DOMAIN mana : 0 <= mana[e] /\ mana[e] <= MaxManaMilli)
    /\ [][ Completes("ManaSystem") =>
             \A e \in Balls :
                LET target == mana[e] + (RegenMilliPerSec * dt) \div 1000
                IN  mana'[e] = IF target > MaxManaMilli THEN MaxManaMilli ELSE target ]_vars

\* the regeneration step has just run with dt > 0: the full mana of ball 1 stayed at
\* max_mana, the mana of ball 2, which cast Shield and Heal, grew by regen_rate * dt
C15_Witness ==
    /\ Len(ran) > 0 /\ ran[Len(ran)] = "ManaSystem" /\ dt = 500
    /\ mana[id1] = MaxManaMilli
    /\ mana[id2] = MaxManaMilli - 3000 - 5000 + 250

\* C16: in every state current_hp <= max_hp: the Collision engine never raises an
\* hp (its damage amounts are never negative) and a heal raises hp to at most max_hp.
C16_HpAtMostMax ==
    /\ [](\A e \in Balls : hp[e] <= BallData[e].max_hp)
    /\ [][ CollisionStep => \A e \in Balls : hp'[e] <= hp[e] ]_vars

\* the heal of ball 2 was applied at hp 9 of 14: 9 + 10 was capped at max_hp
C16_Witness ==
    /\ last.kind = "skill"
    /\ id2 \in DOMAIN last.healed /\ last.healed[id2] = 9
    /\ hp[id2] = BallData[id2].max_hp

\* ball e carries a heal effect that has not been applied
HealPending(e) == e \in DOMAIN effect /\ effect[e].effect_type = "heal"

\* C17: a heal effect attached to an entity with Health is applied exactly once: it
\* leaves the entity only in a Skill-Effect Timer step in which its time_remaining
\* falls below 0 and the hp becomes min(max_hp, hp + effect_value), whatever the dt
\* values and the later casts.  (Stated for an entity below max_hp, where the heal
\* shows in current_hp.)
C17_HealAppliedExactlyOnce ==
    [][ \A e \in Balls :
          /\ HealPending(e) /\ HasHealth(e) /\ hp[e] < BallData[e].max_hp
          /\ ~HealPending(e)'
          => /\ Running("SkillSystem")
             /\ effect[e].time_remaining - dt < 0
             /\ hp'[e] = Min(BallData[e].max_hp, hp[e] + effect[e].effect_value \div 100) ]_vars

\* C18: a Skill-Effect Timer step with dt = 0 changes no time_remaining and no
\* current_hp, so it applies no heal, however often it runs.
C18_ZeroDtTimerIdle ==
    [][ Completes("SkillSystem") /\ dt = 0 =>
          /\ hp' = hp
          /\ \A e \in DOMAIN effect' :
               e \in DOMAIN effect /\ effect'[e].time_remaining = effect[e].time_remaining ]_vars

\* the timer ran with dt = 0 on a heal effect with time_remaining 0 of ball 2, which
\* is below max_hp, and on the running damage_boost effect of ball 1
C18_Witness ==
    /\ last.kind = "skill" /\ dt = 0
    /\ id2 \in DOMAIN last.removed /\ last.removed[id2] = "heal"
    /\ hp[id2] < BallData[id2].max_hp
    /\ id1 \in DOMAIN effect /\ effect[id1].effect_type = "damage_boost"
    /\ effect[id1].time_remaining < SKILLS_PRESETS.Berserk.effect_duration

\* the step of the Boundary Resolver
WallStep == Running("WallCollisionSystem") /\ pc' = pc + 1

\* the circle of a Position lies inside the arena rectangle on both axes
InsideArena(p) ==
    /\ ARENA_X <= p.x - p.radius /\ p.x + p.radius <= ARENA_X + ARENA_SIZE
    /\ ARENA_Y <= p.y - p.radius /\ p.y + p.radius <= ARENA_Y + ARENA_SIZE

ViolatedX(p) == p.x - p.radius < ARENA_X \/ p.x + p.radius > ARENA_X + ARENA_SIZE

ViolatedY(p) == p.y - p.radius < ARENA_Y \/ p.y + p.radius > ARENA_Y + ARENA_SIZE

\* C19: after the step of the Boundary Resolver every entity it processes has
\* its circle inside the arena rectangle on both axes; on each axis that was
\* violated its velocity component has been multiplied by -restitution, on
\* each other axis position and velocity are as before, the two axes being
\* decided independently in the same step.
C19_BoundaryContainment ==
    [][ WallStep =>
          \A e \in Tracked :
            /\ InsideArena(pos'[e])
            /\ IF ViolatedX(pos[e])
                 THEN vel'[e].vx * 1000 = -(vel[e].vx * phys[e].restitution)
                 ELSE vel'[e].vx = vel[e].vx /\ pos'[e].x = pos[e].x
            /\ IF ViolatedY(pos[e])
                 THEN vel'[e].vy * 1000 = -(vel[e].vy * phys[e].restitution)
                 ELSE vel'[e].vy = vel[e].vy /\ pos'[e].y = pos[e].y ]_vars

\* the Boundary Resolver has just put a ball back from beyond the left and the
\* top wall at once, and another from beyond the bottom wall only
C19_Witness ==
    /\ ran # << >> /\ ran[Len(ran)] = "WallCollisionSystem"
    /\ pos[id1].x - pos[id1].radius = ARENA_X /\ vel[id1].vx > 0
    /\ pos[id1].y - pos[id1].radius = ARENA_Y /\ vel[id1].vy > 0
    /\ pos[id2].y + pos[id2].radius = ARENA_Y + ARENA_SIZE /\ vel[id2].vy < 0
    /\ pos[id2].x + pos[id2].radius < ARENA_X + ARENA_SIZE /\ vel[id2].vx > 0

\* the step of the Collision engine on the two balls, which overlap
OverlapStep ==
    /\ CollisionStep /\ CurE1 = id1 /\ CurE2 = id2
    /\ Balls \subseteq DOMAIN pos
    /\ CircleCollision(pos[id1], pos[id2])

\* v . d and v x d for the line d through the centres
Along(v, p1, p2) == v.vx * CircleDx(p1, p2) + v.vy * CircleDy(p1, p2)

Across(v, p1, p2) == v.vx * CircleDy(p1, p2) - v.vy * CircleDx(p1, p2)

\* equal mass, restitution 1, both velocities on the line through the centres,
\* and approaching
HeadOn(p1, p2, v1, v2, ph1, ph2) ==
    /\ ph1.mass = ph2.mass
    /\ ph1.restitution = 1000 /\ ph2.restitution = 1000
    /\ Across(v1, p1, p2) = 0 /\ Across(v2, p1, p2) = 0
    /\ Along(v2, p1, p2) - Along(v1, p1, p2) < 0

C21_CastKeepsActiveEffect ==
    [][ CastStep =>
          \A e \in Balls :
            e \in DOMAIN effect /\ effect[e].time_remaining > 0
              => e \in DOMAIN effect' /\ effect'[e] = effect[e] ]_vars

\* C22: whenever both players are marked ready in select_skills, all four
\* slots of both players hold a skill, and the function does not fail on an
\* empty slot, whether a player became ready by Enter on PRONTO or by a
\* click on the PRONTO button.
C22_ReadyMeansFilled ==
    /\ sel.done_p1 /\ sel.done_p2
         => AllFilled(sel.selected_p1) /\ AllFilled(sel.selected_p2)
    /\ sel.result # "KeyError"

\* the popups that a step of the Collision engine appends
NewPopups == SubSeq(popups', Len(popups) + 1, Len(popups'))

\* C25: every hp reduction applied by the Collision engine, in both damage
\* directions, creates exactly one DamagePopup whose amount is the damage
\* applied and whose target is the damaged entity; no popup is created for an
\* entity whose hp the step did not reduce.
C25_PopupPerHpLoss ==
    [][ CollisionStep =>
          /\ Len(popups') >= Len(popups)
          /\ \A e \in Balls :
               LET mine == { i \in DOMAIN NewPopups : NewPopups[i].target_entity = e }
               IN  IF hp'[e] < hp[e]
                     THEN /\ Cardinality(mine) = 1
                          /\ \A i \in mine : NewPopups[i].amount = hp[e] - hp'[e]
                     ELSE mine = {} ]_vars

\* n/d rounded to the nearest integer, a halfway value to the next integer
RoundHalfUp(n, d) == (2 * n + d) \div (2 * d)

\* the boost b of C26 for the owner of an item, in hundredths
OwnerBoost(owner) ==
    IF /\ owner \in DOMAIN effect
       /\ effect[owner].effect_type = "damage_boost"
       /\ effect[owner].time_remaining > 0
      THEN effect[owner].effect_value
      ELSE 100

OwnerLoss(item, body, owner, r) ==
    PyRound(BallData[body].body_damage * get_active_damage_boost_multiplier(body)
              * (100 - r) * (100 - get_active_damage_reduction_ratio(owner)), 1000000)

\* C27: in an item-body collision that passes the gates both damage directions
\* are applied in the same event: the body loses the item damage, and the
\* item's owner loses round(body_damage x body's boost x (1 - r) x (1 - owner's
\* skill reduction)), r being the colliding item's own damage_reduction if the
\* item faces the body and 0 otherwise; no other item of the owner counts.
C27_BothDirections ==
    [][ CollisionStep /\ last'.kind = "hit" =>
          LET item == last'.item
              body == last'.body
              owner == ItemData[item].parent_entity
              r == IF last'.facing THEN ItemData[item].damage_reduction ELSE 0
          IN  /\ body # owner
              /\ hp'[body] = hp[body] - FinalDamage(DamageToBody(item, owner),
                                                    last'.icpt, body)
              /\ hp'[owner] = hp[owner] - OwnerLoss(item, body, owner, r) ]_vars

\* a hit in which both sides lost hp, the owner behind an item that faces the
\* body while another item of the owner has a larger damage_reduction
C27_Witness ==
    /\ last.kind = "hit"
    /\ last.body_hit /\ last.parent_hit
    /\ last.facing
    /\ \E s \in ShieldsOf(last.parent) :
         ItemData[s].damage_reduction > ItemData[last.item].damage_reduction
    /\ last.final_damage > 0
    /\ last.damage_to_parent
         = OwnerLoss(last.item, last.body, last.parent,
                     ItemData[last.item].damage_reduction)

\* the step of the SpawnProtection system
ProtectionStep == Running("SpawnProtectionSystem")

Collided == last'.kind \in {"pair", "hit"} /\ last'.gate # "apart"

\* C23: for every resolved collision in which at least one side is an item
\* and the summed knockback_strength is positive, the summed knockback is
\* applied as an additional impulse along the normal: each side has a
\* velocity and it is changed (by knockback / mass, in opposite directions).
C23_KnockbackApplied ==
    [][ /\ CollisionStep /\ Collided
        /\ IsItem(CurE1) \/ IsItem(CurE2)
        /\ knockback_impulse(CurE1, CurE2) > 0
        => \A e \in {CurE1, CurE2} :
             /\ HasVelocity(e)
             /\ e \in DOMAIN vel /\ vel'[e] # vel[e] ]_vars

\* C24: a colliding pair of two items that share the same parent is ignored
\* entirely: the step changes neither item's Position, no velocity and no hp.
C24_SameParentIgnored ==
    [][ CollisionStep /\ last'.kind = "pair" /\ last'.gate = "same_parent"
        => /\ \A e \in {CurE1, CurE2} : e \in DOMAIN pos => pos'[e] = pos[e]
           /\ vel' = vel
           /\ hp' = hp ]_vars

\* an angle in [0, 360), in millidegrees
Normalized(angle) == 0 <= angle /\ angle < 360000

\* C28: in every reachable state the angle of every Rotation is in [0, 360),
\* for balls and for orbital items, and every OrbitalItem.angle is in [0, 360).
C28_AnglesNormalized ==
    /\ \A e \in DOMAIN rot : Normalized(rot[e])
    /\ \A i \in DOMAIN orb : Normalized(orb[i])

\* the two balls are tracked and their centres coincide
Coincident ==
    /\ {id1, id2} \subseteq DOMAIN pos
    /\ distance_sq(pos[id1], pos[id2]) = 0

\* C29: two circles whose centres coincide are treated as not colliding: no
\* division by zero, no change of a position, a velocity or an hp for that
\* pair, and the frame continues with the remaining pairs.
C29_CoincidentCentresSkipped ==
    [][ CollisionStep /\ CurE1 = id1 /\ CurE2 = id2 /\ Coincident
        => /\ last'.kind = "pair" /\ last'.gate = "apart"
           /\ pc' # Crashed
           /\ pos' = pos /\ vel' = vel /\ hp' = hp
           /\ IF NextPair(pairIdx, Len(collidable_entities)) = << >>
                THEN Completes("BallCollisionSystem")
                ELSE pairIdx' = NextPair(pairIdx, Len(collidable_entities)) ]_vars

\* the balls lie on one point and the Collision engine has gone through all
\* the pairs of the frame
C29_Witness ==
    /\ Coincident
    /\ frame >= 1
    /\ "BallCollisionSystem" \in Range(ran)
    /\ pc # Crashed

\* a successful cast of slot i by ball e
CastOf(e, i) ==
    /\ CastStep
    /\ last'.kind = "cast" /\ last'.e = e /\ last'.slot = i

\* C32: for each combatant and each skill, two successful casts of that skill
\* are at least the skill's cooldown apart in match time, also when the skill
\* sits in more than one of the combatant's four slots: a cast of a slot comes
\* no sooner than the cooldown after the last cast of every slot holding the
\* same skill.
C32_SameSkillCooldownApart ==
    [][ \A e \in Balls : \A i, j \in 0..3 :
          CastOf(e, i) /\ skills(e)[j] = skills(e)[i] /\ lastCast[e][j] # Never =>
            current_time - lastCast[e][j] >= SkillSlots[e][i].cooldown ]_vars

\* the two spawn centres are at distance >= radius1 + radius2 (quarter pixels)
CentresApart(s) ==
    LET r1 == CLASS_PRESETS[s.chosen_p1].radius
        r2 == CLASS_PRESETS[s.chosen_p2].radius
    IN  (s.cursor_p2[1] - s.cursor_p1[1]) * (s.cursor_p2[1] - s.cursor_p1[1])
          + (s.cursor_p2[2] - s.cursor_p1[2]) * (s.cursor_p2[2] - s.cursor_p1[2])
          >= 16 * (r1 + r2) * (r1 + r2)

\* C35: when spawn selection completes (both players confirmed) the two chosen
\* spawn centres are at distance >= radius1 + radius2, in either order of
\* confirmation and when both confirm in one event batch: a confirmed player
\* stays confirmed and its cursor no longer moves, and no pass of the loop
\* that starts with overlapping circles ends with both players confirmed.
C35_SpawnsApart ==
    /\ [](spawn.result = "returned" => CentresApart(spawn))
    /\ [][ /\ spawn.spawn_confirmed_p1 =>
                spawn'.spawn_confirmed_p1 /\ spawn'.cursor_p1 = spawn.cursor_p1
           /\ spawn.spawn_confirmed_p2 =>
                spawn'.spawn_confirmed_p2 /\ spawn'.cursor_p2 = spawn.cursor_p2 ]_vars
    /\ [][ ~CentresApart(spawn) =>
             ~(spawn'.spawn_confirmed_p1 /\ spawn'.spawn_confirmed_p2) ]_vars

\* the loop has ended after a confirmation was refused: the refused player moved
\* its cursor away and confirmed again
C35_Witness ==
    /\ spawn.result = "returned"
    /\ last.kind = "spawn" /\ last.refused
    /\ spawn.cursor_p1 # SpawnStart("Knight", "Knight").cursor_p1
    /\ spawn.cursor_p2 # SpawnStart("Knight", "Knight").cursor_p2

\* C33: after the Boundary Resolver has corrected an entity on an axis, the
\* entity's velocity component on that axis points away from the violated wall
\* (into the arena) or is zero, also when the entity was beyond the wall while
\* already moving back inward.
C33_BounceIntoArena ==
    [][ WallStep =>
          \A e \in Tracked :
            /\ pos[e].x - pos[e].radius < ARENA_X => vel'[e].vx >= 0
            /\ pos[e].x - pos[e].radius >= ARENA_X
                 /\ pos[e].x + pos[e].radius > ARENA_X + ARENA_SIZE => vel'[e].vx <= 0
            /\ pos[e].y - pos[e].radius < ARENA_Y => vel'[e].vy >= 0
            /\ pos[e].y - pos[e].radius >= ARENA_Y
                 /\ pos[e].y + pos[e].radius > ARENA_Y + ARENA_SIZE => vel'[e].vy <= 0 ]_vars

\* C34: at the end of every completed frame each ball (circular entity with
\* Velocity and Physics) lies entirely inside the arena rectangle.
C34_InsideAtFrameEnd ==
    FrameComplete => \A e \in Tracked : InsideArena(pos[e])

\* the speed of velocity v, squared
SpeedSq(v) == v.vx * v.vx + v.vy * v.vy

\* velocity w has the direction of velocity v
SameDirection(v, w) ==
    /\ v.vx * w.vy = v.vy * w.vx
    /\ v.vx * w.vx + v.vy * w.vy > 0

====
